---------------------------- MODULE Spec2Model ----------------------------
(***************************************************************************)
(* SimpleMove: the in-memory store (MemStorage, server/storage.ts) and the *)
(* ride lifecycle it enforces.                                             *)
(*                                                                         *)
(* The store is four Maps keyed by id and four id counters.  Every method  *)
(* of MemStorage is one action: its guards are the method's throw          *)
(* statements, its primed variables the method's Map.set calls and counter *)
(* increments.  A call leaves its method, arguments and outcome in lastOp, *)
(* whether it returned or threw; Return is the caller taking that outcome, *)
(* after which the next call starts.                                       *)
(*                                                                         *)
(* null and undefined are one value, NULL: the store only ever compares    *)
(* them for identity with an id or tests them for truthiness.              *)
(***************************************************************************)
EXTENDS Integers, FiniteSets, Sequences, TLC

(***************************************************************************)
(* Bounds of the model.                                                    *)
(***************************************************************************)
\* rides the store creates before createRide stops succeeding
MaxRides == 2
\* the clock (new Date()) stops advancing here
MaxTime == 2
\* users (the seeded one included), vehicles and ratings the store creates
\* before createUser, createVehicle and createRating stop being called
MaxUsers == 2
MaxVehicles == 1
MaxRatings == 2

\* the user ids callers pass as passengerId and driverId
UserIds == {1, 2}

(***************************************************************************)
(* Values.                                                                 *)
(***************************************************************************)
\* null / undefined of a nullable column or of a field that was never set
NULL == 0
\* what Map.get and Array.find return when there is no match
undefined == [undefined |-> TRUE]

\* the statuses the column comment of rides.status lists
RideStatuses == {"requested", "accepted", "in_progress", "completed", "cancelled"}

\* no method threw
NoError == "ok"

\* The messages of the Error objects the store throws, by failure kind.
ErrorKind(msg) ==
    CASE msg \in {"Ride not found", "User not found", "Vehicle not found"}
            -> "NotFound"
      [] msg \in {"Ride is not in requested status",
                  "Ride is not in accepted status",
                  "Ride is not in progress",
                  "Ride cannot be cancelled"}
            -> "InvalidTransition"
      [] msg \in {"Passenger already has an active ride",
                  "Driver already has an active ride"}
            -> "AlreadyActive"
      [] OTHER -> "none"

\* The statuses a thrown message names in its text.
NamedStatuses(msg) ==
    CASE msg = "Ride is not in requested status" -> {"requested"}
      [] msg = "Ride is not in accepted status"  -> {"accepted"}
      [] msg = "Ride is not in progress"         -> {"in_progress"}
      [] msg = "Ride cannot be cancelled"        -> {"cancelled"}
      [] OTHER -> {}

(***************************************************************************)
(* State.                                                                  *)
(***************************************************************************)
VARIABLES
    usersMap,          \* Map<number, User>
    vehiclesMap,       \* Map<number, Vehicle>
    ridesMap,          \* Map<number, Ride>
    ridesOrder,        \* the keys of ridesMap in the order values() yields them
    ratingsMap,        \* Map<number, Rating>
    userIdCounter,
    vehicleIdCounter,
    rideIdCounter,
    ratingIdCounter,
    now,               \* the value new Date() returns
    lastOp,            \* the call that has just settled: method, arguments, outcome
    transitions,       \* history: the transitions each ride has undergone
    calls,             \* the calls that are suspended at an await, or just settled
    driverView,        \* the state of the DriverView component of one driver
    placesInput        \* the state of one GooglePlacesInput component

store == <<usersMap, vehiclesMap, ridesMap, ridesOrder, ratingsMap,
           userIdCounter, vehicleIdCounter, rideIdCounter, ratingIdCounter>>

vars == <<usersMap, vehiclesMap, ridesMap, ridesOrder, ratingsMap,
          userIdCounter, vehicleIdCounter, rideIdCounter, ratingIdCounter,
          now, lastOp, transitions, calls, driverView, placesInput>>

\* Map.set(key, value): a new key is appended, an existing key keeps its place
MapSet(map, key, value) ==
    [k \in DOMAIN map \cup {key} |-> IF k = key THEN value ELSE map[k]]

Min(S) == CHOOSE x \in S : \A y \in S : x <= y

\* mutant: set() of an existing key moves the key to the end
MapSetOrder_moveToEnd(order, key) ==
    Append(SelectSeq(order, LAMBDA k : k # key), key)

\* Map.set(key, value), the iteration order: a new key goes to the end, an
\* existing key stays where it is
MapSetOrder(order, key) ==
    IF \E i \in 1..Len(order) : order[i] = key
    THEN order
    ELSE Append(order, key)

\* Array.from(map.values())
values(map, order) == [i \in 1..Len(order) |-> map[order[i]]]

\* array.find(test), with passes[i] the value of test on array[i]: the first
\* element that passes, undefined when none does
find(array, passes) ==
    LET passing == {i \in 1..Len(array) : passes[i]} IN
    IF passing = {} THEN undefined ELSE array[Min(passing)]

\* array.filter(test), with passes[i] the value of test on array[i]: the
\* elements that pass, in the order they had
filter(array, passes) ==
    LET passing == SelectSeq([i \in 1..Len(array) |-> i], LAMBDA i : passes[i])
    IN  [n \in 1..Len(passing) |-> array[passing[n]]]

\* array.sort(compare) for a compare that orders by key(b) - key(a), with
\* keys[i] the key of array[i]: the larger key first, elements with equal
\* keys in the order they had (the sort is stable)
sortDescending(array, keys) ==
    LET n == Len(array)
        place(i) ==
            1 + Cardinality({j \in 1..n : keys[j] > keys[i]})
              + Cardinality({j \in 1..(i - 1) : keys[j] = keys[i]})
    IN  [p \in 1..n |-> array[CHOOSE i \in 1..n : place(i) = p]]

\* array.slice(0, end) for end >= 0
slice(array, end) ==
    SubSeq(array, 1, IF end < Len(array) THEN end ELSE Len(array))

\* Map.get(key)
MapGet(map, key) == IF key \in DOMAIN map THEN map[key] ELSE undefined

\* Array.from(map.values()).find(pred): the first match in insertion order.
\* Keys come from an increasing counter, so insertion order is key order.
FindFirst(map, matching) ==
    IF matching = {} THEN undefined ELSE map[Min(matching)]

(***************************************************************************)
(* Ride queries.                                                           *)
(***************************************************************************)
getRide(rides, id) == MapGet(rides, id)

\* limit: number = 10.  The optional argument is <<>> when the caller leaves
\* it out and <<n>> when the caller passes n.
DefaultLimit == 10
limitOf(limitArg) == IF limitArg = <<>> THEN DefaultLimit ELSE limitArg[1]

\* requestedAt?.getTime() || 0
requestedTime(ride) == IF ride.requestedAt = NULL THEN 0 ELSE ride.requestedAt

\* mutant: the list is cut to limit before it is sorted
getUserRides_sliceFirst(rides, order, userId, limitArg) ==
    LET all    == values(rides, order)
        mine   == filter(all, [i \in DOMAIN all |->
                      all[i].passengerId = userId \/ all[i].driverId = userId])
        cut    == slice(mine, limitOf(limitArg))
    IN  sortDescending(cut, [i \in DOMAIN cut |-> requestedTime(cut[i])])

\* values().filter(passenger or driver).sort(most recent first).slice(0, limit)
getUserRides(rides, order, userId, limitArg) ==
    LET all    == values(rides, order)
        mine   == filter(all, [i \in DOMAIN all |->
                      all[i].passengerId = userId \/ all[i].driverId = userId])
        sorted == sortDescending(mine,
                      [i \in DOMAIN mine |-> requestedTime(mine[i])])
    IN  slice(sorted, limitOf(limitArg))

getActiveRideForUser(rides, order, userId) ==
    LET all == values(rides, order) IN
    find(all, [i \in DOMAIN all |->
        /\ (all[i].passengerId = userId \/ all[i].driverId = userId)
        /\ all[i].status \in {"requested", "accepted", "in_progress"}])

\* mutant: the driver guard forgets the rides that are only accepted
getDriverActiveRide_inProgressOnly(rides, driverId) ==
    FindFirst(rides,
        {k \in DOMAIN rides :
            /\ rides[k].driverId = driverId
            /\ rides[k].status \in {"in_progress"}})

getDriverActiveRide(rides, driverId) ==
    FindFirst(rides,
        {k \in DOMAIN rides :
            /\ rides[k].driverId = driverId
            /\ rides[k].status \in {"accepted", "in_progress"}})

\* mutant: the passenger guard counts the rides that are over too
getPassengerActiveRide_anyStatus(rides, passengerId) ==
    FindFirst(rides,
        {k \in DOMAIN rides : rides[k].passengerId = passengerId})

\* mutant: the passenger guard forgets the rides a driver has taken
getPassengerActiveRide_requestedOnly(rides, passengerId) ==
    FindFirst(rides,
        {k \in DOMAIN rides :
            /\ rides[k].passengerId = passengerId
            /\ rides[k].status \in {"requested"}})

getPassengerActiveRide(rides, passengerId) ==
    FindFirst(rides,
        {k \in DOMAIN rides :
            /\ rides[k].passengerId = passengerId
            /\ rides[k].status \in {"requested", "accepted", "in_progress"}})

(***************************************************************************)
(* Ride operations: what each method throws, and the record it stores.     *)
(***************************************************************************)
\* InsertRide (insertRideSchema): every column of rides but id and the five
\* timestamps.  originAddress stands for the columns no method reads.
InsertRides ==
    [passengerId   : UserIds,
     driverId      : UserIds \cup {NULL},
     status        : {"requested", "completed"},
     originAddress : {"A"}]

\* mutant: createRide without its guard
createRideError_noGuard(rides, rideData) == NoError

createRideError(rides, rideData) ==
    IF getPassengerActiveRide(rides, rideData.passengerId) # undefined
    THEN "Passenger already has an active ride"
    ELSE NoError

\* { ...rideData, id, status: 'requested', requestedAt: now }
createRideRecord(rideData, id, t) ==
    [id            |-> id,
     passengerId   |-> rideData.passengerId,
     driverId      |-> rideData.driverId,
     originAddress |-> rideData.originAddress,
     status        |-> "requested",
     requestedAt   |-> t,
     acceptedAt    |-> NULL,
     startedAt     |-> NULL,
     completedAt   |-> NULL,
     cancelledAt   |-> NULL]

\* mutant: the driver guard is global, any driver's ride blocks every driver
acceptRideError_globalGuard(rides, rideId, driverId) ==
    LET ride == getRide(rides, rideId) IN
    IF ride = undefined THEN "Ride not found"
    ELSE IF ride.status # "requested" THEN "Ride is not in requested status"
    ELSE IF \E k \in DOMAIN rides : rides[k].status \in {"accepted", "in_progress"}
         THEN "Driver already has an active ride"
    ELSE NoError

\* mutant: the driver guard is checked before the ride is looked up
acceptRideError_guardBeforeLookup(rides, rideId, driverId) ==
    LET ride == getRide(rides, rideId) IN
    IF getDriverActiveRide(rides, driverId) # undefined
    THEN "Driver already has an active ride"
    ELSE IF ride = undefined THEN "Ride not found"
    ELSE IF ride.status # "requested" THEN "Ride is not in requested status"
    ELSE NoError

\* mutant: the driver guard is checked before the status of the ride
acceptRideError_driverFirst(rides, rideId, driverId) ==
    LET ride == getRide(rides, rideId) IN
    IF ride = undefined THEN "Ride not found"
    ELSE IF getDriverActiveRide(rides, driverId) # undefined
         THEN "Driver already has an active ride"
    ELSE IF ride.status # "requested" THEN "Ride is not in requested status"
    ELSE NoError

acceptRideError(rides, rideId, driverId) ==
    LET ride == getRide(rides, rideId) IN
    IF ride = undefined THEN "Ride not found"
    ELSE IF ride.status # "requested" THEN "Ride is not in requested status"
    ELSE IF getDriverActiveRide(rides, driverId) # undefined
         THEN "Driver already has an active ride"
    ELSE NoError

\* { ...ride, driverId, status: 'accepted', acceptedAt: now }
acceptRideRecord(ride, driverId, t) ==
    [ride EXCEPT !.driverId = driverId, !.status = "accepted", !.acceptedAt = t]

\* mutant: declineRide takes every ride cancelRide takes
declineRideError_likeCancel(rides, rideId) ==
    LET ride == getRide(rides, rideId) IN
    IF ride = undefined THEN "Ride not found"
    ELSE IF ride.status \notin {"requested", "accepted", "in_progress"}
         THEN "Ride is not in requested status"
    ELSE NoError

declineRideError(rides, rideId) ==
    LET ride == getRide(rides, rideId) IN
    IF ride = undefined THEN "Ride not found"
    ELSE IF ride.status # "requested" THEN "Ride is not in requested status"
    ELSE NoError

\* { ...ride, status: 'cancelled', cancelledAt: now }
declineRideRecord(ride, t) ==
    [ride EXCEPT !.status = "cancelled", !.cancelledAt = t]

markDriverArrivedError(rides, rideId) ==
    LET ride == getRide(rides, rideId) IN
    IF ride = undefined THEN "Ride not found"
    ELSE IF ride.status # "accepted" THEN "Ride is not in accepted status"
    ELSE NoError

\* mutant: startRide takes a ride that is already in progress
startRideError_inProgressToo(rides, rideId) ==
    LET ride == getRide(rides, rideId) IN
    IF ride = undefined THEN "Ride not found"
    ELSE IF ride.status \notin {"accepted", "in_progress"}
         THEN "Ride is not in accepted status"
    ELSE NoError

startRideError(rides, rideId) ==
    LET ride == getRide(rides, rideId) IN
    IF ride = undefined THEN "Ride not found"
    ELSE IF ride.status # "accepted" THEN "Ride is not in accepted status"
    ELSE NoError

\* mutant: startRide forgets its timestamp
startRideRecord_noTimestamp(ride, t) ==
    [ride EXCEPT !.status = "in_progress"]

\* { ...ride, status: 'in_progress', startedAt: now }
startRideRecord(ride, t) ==
    [ride EXCEPT !.status = "in_progress", !.startedAt = t]

completeRideError(rides, rideId) ==
    LET ride == getRide(rides, rideId) IN
    IF ride = undefined THEN "Ride not found"
    ELSE IF ride.status # "in_progress" THEN "Ride is not in progress"
    ELSE NoError

\* mutant: completeRide stamps the wrong column
completeRideRecord_wrongColumn(ride, t) ==
    [ride EXCEPT !.status = "completed", !.cancelledAt = t]

\* mutant: completeRide stamps the ride with the time it was requested
completeRideRecord_staleTime(ride, t) ==
    [ride EXCEPT !.status = "completed", !.completedAt = ride.requestedAt]

\* { ...ride, status: 'completed', completedAt: now }
completeRideRecord(ride, t) ==
    [ride EXCEPT !.status = "completed", !.completedAt = t]

\* mutant: cancelRide refuses a ride that has started
cancelRideError_notOnceStarted(rides, rideId) ==
    LET ride == getRide(rides, rideId) IN
    IF ride = undefined THEN "Ride not found"
    ELSE IF ride.status \notin {"requested", "accepted"}
         THEN "Ride cannot be cancelled"
    ELSE NoError

\* mutant: cancelRide also takes a completed ride
cancelRideError_completedToo(rides, rideId) ==
    LET ride == getRide(rides, rideId) IN
    IF ride = undefined THEN "Ride not found"
    ELSE IF ride.status \notin {"requested", "accepted", "in_progress", "completed"}
         THEN "Ride cannot be cancelled"
    ELSE NoError

cancelRideError(rides, rideId) ==
    LET ride == getRide(rides, rideId) IN
    IF ride = undefined THEN "Ride not found"
    ELSE IF ride.status \notin {"requested", "accepted", "in_progress"}
         THEN "Ride cannot be cancelled"
    ELSE NoError

\* mutant: a cancelled ride forgets its driver and when it was accepted
cancelRideRecord_forgetsDriver(ride, t) ==
    [ride EXCEPT !.status = "cancelled", !.cancelledAt = t,
                 !.driverId = NULL, !.acceptedAt = NULL]

\* { ...ride, status: 'cancelled', cancelledAt: now }
cancelRideRecord(ride, t) ==
    [ride EXCEPT !.status = "cancelled", !.cancelledAt = t]


(***************************************************************************)
(* Users and vehicles.                                                     *)
(***************************************************************************)
\* the user the constructor seeds through createUser
SeedUser ==
    [username |-> "test", email |-> "test@example.com",
     userType |-> "passenger", isOnline |-> FALSE]

\* { ...userData, id, createdAt: now }
createUserRecord(userData, id, t) ==
    [id        |-> id,
     username  |-> userData.username,
     email     |-> userData.email,
     userType  |-> userData.userType,
     isOnline  |-> userData.isOnline,
     createdAt |-> t]

\* mutant: the spread the other way round, { ...partial, ...record }
Merge_recordWins(record, partial) ==
    [f \in DOMAIN record \cup DOMAIN partial |->
        IF f \in DOMAIN record THEN record[f] ELSE partial[f]]

\* { ...record, ...partial }: the fields of partial overwrite those of record
Merge(record, partial) ==
    [f \in DOMAIN record \cup DOMAIN partial |->
        IF f \in DOMAIN partial THEN partial[f] ELSE record[f]]

getUser(users, id) == MapGet(users, id)

getVehicle(vehicles, id) == MapGet(vehicles, id)

updateUserError(users, id) ==
    IF getUser(users, id) = undefined THEN "User not found" ELSE NoError

updateVehicleError(vehicles, id) ==
    IF getVehicle(vehicles, id) = undefined THEN "Vehicle not found" ELSE NoError

\* Partial<User> and Partial<Vehicle> values callers pass
UserPartials == {[isOnline |-> TRUE], [isOnline |-> FALSE]}
VehiclePartials == {[color |-> "red"]}

\* Partial<User> values of a profile update: more than one field at once
ProfilePartials ==
    UserPartials \cup {[username |-> "ana", email |-> "ana@example.com"]}

\* InsertUser values callers pass to createUser
InsertUsers ==
    {[username |-> "test", email |-> "test@example.com",
      userType |-> "driver", isOnline |-> FALSE],
     [username |-> "ana", email |-> "ana@example.com",
      userType |-> "driver", isOnline |-> FALSE]}

\* Array.from(usersMap.values()).find(user => user.username === username)
getUserByUsername(users, username) ==
    FindFirst(users, {k \in DOMAIN users : users[k].username = username})

\* Array.from(vehiclesMap.values()).find(vehicle => vehicle.driverId === driverId)
getVehicleByDriver(vehicles, driverId) ==
    FindFirst(vehicles,
        {k \in DOMAIN vehicles : vehicles[k].driverId = driverId})

\* InsertVehicle values callers pass to createVehicle
InsertVehicles ==
    [driverId : {1}, color : {"blue"}, licensePlate : {"ABC1234"}]

\* mutant: the new vehicle takes the id the user counter is at
createVehicleRecord_userCounter(vehicleData, id) ==
    [id           |-> userIdCounter,
     driverId     |-> vehicleData.driverId,
     color        |-> vehicleData.color,
     licensePlate |-> vehicleData.licensePlate]

\* { ...vehicleData, id }
createVehicleRecord(vehicleData, id) ==
    [id           |-> id,
     driverId     |-> vehicleData.driverId,
     color        |-> vehicleData.color,
     licensePlate |-> vehicleData.licensePlate]

\* InsertRating values callers pass to createRating
InsertRatings ==
    [rideId : {1}, fromUserId : {1}, toUserId : {2}, rating : {5}]

getRating(ratings, id) == MapGet(ratings, id)

\* the keys of a map that is only ever added to, in the order values()
\* yields them: the counter they come from only grows
insertionOrder(map) == [i \in 1..Cardinality(DOMAIN map) |-> i]

\* createdAt?.getTime() || 0
createdTime(rating) == IF rating.createdAt = NULL THEN 0 ELSE rating.createdAt

\* values().filter(toUserId === userId).sort(most recent first)
getUserRatings(ratings, userId) ==
    LET all      == values(ratings, insertionOrder(ratings))
        received == filter(all, [i \in DOMAIN all |-> all[i].toUserId = userId])
    IN  sortDescending(received,
            [i \in DOMAIN received |-> createdTime(received[i])])

\* InsertRating values with a score the rating column's comment (1-5) excludes
AnyScoreRatings ==
    [rideId : {1}, fromUserId : {1}, toUserId : {2}, rating : {5, 6}]

\* mutant: a score above 5 is stored as 5
createRatingRecord_clamped(ratingData, id, t) ==
    [id         |-> id,
     rideId     |-> ratingData.rideId,
     fromUserId |-> ratingData.fromUserId,
     toUserId   |-> ratingData.toUserId,
     rating     |-> IF ratingData.rating > 5 THEN 5 ELSE ratingData.rating,
     createdAt  |-> t]

\* { ...ratingData, id, createdAt: now }
createRatingRecord(ratingData, id, t) ==
    [id         |-> id,
     rideId     |-> ratingData.rideId,
     fromUserId |-> ratingData.fromUserId,
     toUserId   |-> ratingData.toUserId,
     rating     |-> ratingData.rating,
     createdAt  |-> t]

(***************************************************************************)
(* Construction.                                                           *)
(***************************************************************************)
\* no call is settling: the last caller has taken its result
Idle == [op |-> "none", id |-> NULL, user |-> NULL, err |-> NoError]

\* The promises that can be pending at once, and a slot with no call in it.
\* A pending call keeps its arguments and the locals it has read so far.
CallIds == {1, 2}
NoCall == [op |-> "none", pc |-> "none", rideId |-> NULL, driverId |-> NULL,
           rideData |-> <<>>, ride |-> undefined, existingRide |-> undefined,
           err |-> NoError]

\* DriverView.tsx: the countdown a ride request starts from, and the id of
\* the ride request the component shows
CountdownStart == 15
DemoRideId == 999

\* The component as it mounts for an online driver with no active ride:
\* rideRequest, countdown, countdownActive and rideState are its useState
\* cells; acceptPending and declinePending count the PATCH requests its two
\* mutations have sent and not yet had answered.  clicked and autoDeclines
\* are history: whether the driver has pressed a button since the request
\* was shown, and how many declines the countdown has sent for it.
DriverViewInit ==
    [rideRequest     |-> NULL,
     countdown       |-> CountdownStart,
     countdownActive |-> FALSE,
     rideState       |-> "no-rides",
     acceptPending   |-> 0,
     declinePending  |-> 0,
     clicked         |-> FALSE,
     autoDeclines    |-> 0]

\* GooglePlacesInput: the length from which the input is looked up, the
\* longest text typed, and the most lookups in flight at once
MinChars == 3
MaxValueLen == 4
MaxRequests == 3

\* The component as it mounts with an empty input and the Places library
\* loaded.  value is the length of the text; predictions, isLoading and
\* error are its useState cells; timer is the debounce timeout of the last
\* effect run; requests counts the getPlacePredictions calls not yet
\* answered.
GooglePlacesInputInit ==
    [value       |-> 0,
     predictions |-> "none",
     isLoading   |-> FALSE,
     error       |-> NULL,
     timer       |-> FALSE,
     requests    |-> 0]

Init ==
    /\ now = 1
    /\ usersMap = MapSet(<<>>, 1, createUserRecord(SeedUser, 1, 1))
    /\ userIdCounter = 2
    /\ vehiclesMap = <<>>
    /\ vehicleIdCounter = 1
    /\ ridesMap = <<>>
    /\ ridesOrder = <<>>
    /\ rideIdCounter = 1
    /\ ratingsMap = <<>>
    /\ ratingIdCounter = 1
    /\ lastOp = Idle
    /\ transitions = <<>>
    /\ calls = [c \in CallIds |-> NoCall]
    /\ driverView = DriverViewInit
    /\ placesInput = GooglePlacesInputInit

(***************************************************************************)
(* Actions: one per method.  A call starts when no other is settling, runs *)
(* to its return or throw in one step and leaves its outcome in lastOp.    *)
(***************************************************************************)
\* ids a caller may pass: the stored ones and one that is not in the store
RideIdArgs == 1..rideIdCounter
UserIdArgs == 1..userIdCounter
VehicleIdArgs == 1..vehicleIdCounter

\* the frame of a method on rides / on users / on vehicles
RidesOnly ==
    UNCHANGED <<usersMap, vehiclesMap, ratingsMap, userIdCounter,
                vehicleIdCounter, ratingIdCounter, now, calls, driverView, placesInput>>

createRideCall(inputs) ==
    /\ lastOp = Idle
    /\ \E rideData \in inputs :
        LET err == createRideError(ridesMap, rideData)
            id  == rideIdCounter
        IN  IF err # NoError
            THEN /\ lastOp' = [op |-> "createRide", id |-> NULL,
                               user |-> rideData.passengerId, err |-> err]
                 /\ UNCHANGED <<ridesMap, ridesOrder, rideIdCounter, transitions>>
            ELSE /\ rideIdCounter <= MaxRides
                 /\ rideIdCounter' = rideIdCounter + 1
                 /\ ridesOrder' = MapSetOrder(ridesOrder, id)
                 /\ ridesMap' = MapSet(ridesMap, id,
                                       createRideRecord(rideData, id, now))
                 /\ transitions' = MapSet(transitions, id, {})
                 /\ lastOp' = [op |-> "createRide", id |-> id,
                               user |-> rideData.passengerId, err |-> NoError]
    /\ RidesOnly

createRide == createRideCall(InsertRides)

\* mutant: acceptRide stores the accepted ride before it checks the driver
acceptRide_writesBeforeGuard ==
    /\ lastOp = Idle
    /\ \E rideId \in RideIdArgs, driverId \in UserIds :
        LET err == acceptRideError(ridesMap, rideId, driverId) IN
        /\ lastOp' = [op |-> "acceptRide", id |-> rideId,
                      user |-> driverId, err |-> err]
        /\ IF err \notin {NoError, "Driver already has an active ride"}
           THEN UNCHANGED <<ridesMap, ridesOrder, transitions>>
           ELSE /\ ridesOrder' = MapSetOrder(ridesOrder, rideId)
                /\ ridesMap' = MapSet(ridesMap, rideId,
                        acceptRideRecord(ridesMap[rideId], driverId, now))
                /\ transitions' = [transitions EXCEPT ![rideId] = @ \cup {"accept"}]
    /\ UNCHANGED rideIdCounter
    /\ RidesOnly

acceptRide ==
    /\ lastOp = Idle
    /\ \E rideId \in RideIdArgs, driverId \in UserIds :
        LET err == acceptRideError(ridesMap, rideId, driverId) IN
        /\ lastOp' = [op |-> "acceptRide", id |-> rideId,
                      user |-> driverId, err |-> err]
        /\ IF err # NoError
           THEN UNCHANGED <<ridesMap, ridesOrder, transitions>>
           ELSE /\ ridesOrder' = MapSetOrder(ridesOrder, rideId)
                /\ ridesMap' = MapSet(ridesMap, rideId,
                        acceptRideRecord(ridesMap[rideId], driverId, now))
                /\ transitions' = [transitions EXCEPT ![rideId] = @ \cup {"accept"}]
    /\ UNCHANGED rideIdCounter
    /\ RidesOnly

declineRide ==
    /\ lastOp = Idle
    /\ \E rideId \in RideIdArgs :
        LET err == declineRideError(ridesMap, rideId) IN
        /\ lastOp' = [op |-> "declineRide", id |-> rideId,
                      user |-> NULL, err |-> err]
        /\ IF err # NoError
           THEN UNCHANGED <<ridesMap, ridesOrder, transitions>>
           ELSE /\ ridesOrder' = MapSetOrder(ridesOrder, rideId)
                /\ ridesMap' = MapSet(ridesMap, rideId,
                        declineRideRecord(ridesMap[rideId], now))
                /\ transitions' = [transitions EXCEPT ![rideId] = @ \cup {"cancel"}]
    /\ UNCHANGED rideIdCounter
    /\ RidesOnly

\* mutant: markDriverArrived starts the ride
markDriverArrived_startsRide ==
    /\ lastOp = Idle
    /\ \E rideId \in RideIdArgs :
        LET err == markDriverArrivedError(ridesMap, rideId) IN
        /\ lastOp' = [op |-> "markDriverArrived", id |-> rideId,
                      user |-> NULL, err |-> err]
        /\ IF err # NoError
           THEN UNCHANGED <<ridesMap, ridesOrder, transitions>>
           ELSE /\ ridesOrder' = MapSetOrder(ridesOrder, rideId)
                /\ ridesMap' = MapSet(ridesMap, rideId,
                        startRideRecord(ridesMap[rideId], now))
                /\ transitions' = [transitions EXCEPT ![rideId] = @ \cup {"start"}]
    /\ UNCHANGED rideIdCounter
    /\ RidesOnly

markDriverArrived ==
    /\ lastOp = Idle
    /\ \E rideId \in RideIdArgs :
        LET err == markDriverArrivedError(ridesMap, rideId) IN
        /\ lastOp' = [op |-> "markDriverArrived", id |-> rideId,
                      user |-> NULL, err |-> err]
        /\ UNCHANGED <<ridesMap, ridesOrder, transitions>>
    /\ UNCHANGED rideIdCounter
    /\ RidesOnly

startRide ==
    /\ lastOp = Idle
    /\ \E rideId \in RideIdArgs :
        LET err == startRideError(ridesMap, rideId) IN
        /\ lastOp' = [op |-> "startRide", id |-> rideId,
                      user |-> NULL, err |-> err]
        /\ IF err # NoError
           THEN UNCHANGED <<ridesMap, ridesOrder, transitions>>
           ELSE /\ ridesOrder' = MapSetOrder(ridesOrder, rideId)
                /\ ridesMap' = MapSet(ridesMap, rideId,
                        startRideRecord(ridesMap[rideId], now))
                /\ transitions' = [transitions EXCEPT ![rideId] = @ \cup {"start"}]
    /\ UNCHANGED rideIdCounter
    /\ RidesOnly

completeRide ==
    /\ lastOp = Idle
    /\ \E rideId \in RideIdArgs :
        LET err == completeRideError(ridesMap, rideId) IN
        /\ lastOp' = [op |-> "completeRide", id |-> rideId,
                      user |-> NULL, err |-> err]
        /\ IF err # NoError
           THEN UNCHANGED <<ridesMap, ridesOrder, transitions>>
           ELSE /\ ridesOrder' = MapSetOrder(ridesOrder, rideId)
                /\ ridesMap' = MapSet(ridesMap, rideId,
                        completeRideRecord(ridesMap[rideId], now))
                /\ transitions' = [transitions EXCEPT ![rideId] = @ \cup {"complete"}]
    /\ UNCHANGED rideIdCounter
    /\ RidesOnly

cancelRide ==
    /\ lastOp = Idle
    /\ \E rideId \in RideIdArgs :
        LET err == cancelRideError(ridesMap, rideId) IN
        /\ lastOp' = [op |-> "cancelRide", id |-> rideId,
                      user |-> NULL, err |-> err]
        /\ IF err # NoError
           THEN UNCHANGED <<ridesMap, ridesOrder, transitions>>
           ELSE /\ ridesOrder' = MapSetOrder(ridesOrder, rideId)
                /\ ridesMap' = MapSet(ridesMap, rideId,
                        cancelRideRecord(ridesMap[rideId], now))
                /\ transitions' = [transitions EXCEPT ![rideId] = @ \cup {"cancel"}]
    /\ UNCHANGED rideIdCounter
    /\ RidesOnly

\* updateUser(id, userData), called as method op with userData from partials
updateUserCall(op, partials) ==
    /\ lastOp = Idle
    /\ \E id \in UserIdArgs, userData \in partials :
        LET err == updateUserError(usersMap, id) IN
        /\ lastOp' = [op |-> op, id |-> id, user |-> NULL,
                      err |-> err, data |-> userData]
        /\ IF err # NoError
           THEN UNCHANGED usersMap
           ELSE usersMap' = MapSet(usersMap, id, Merge(usersMap[id], userData))
    /\ UNCHANGED <<vehiclesMap, ridesMap, ridesOrder, ratingsMap, userIdCounter,
                   vehicleIdCounter, rideIdCounter, ratingIdCounter,
                   now, transitions, calls, driverView, placesInput>>

updateUser == updateUserCall("updateUser", UserPartials)

\* updateUser with the fields of a profile form
updateUserProfile == updateUserCall("updateUser", ProfilePartials)

\* updateUserStatus(id, isOnline) is updateUser(id, { isOnline })
updateUserStatus ==
    updateUserCall("updateUserStatus", {[isOnline |-> b] : b \in BOOLEAN})

createUser ==
    /\ lastOp = Idle
    /\ userIdCounter <= MaxUsers
    /\ \E userData \in InsertUsers :
        LET id == userIdCounter
            user == createUserRecord(userData, id, now) IN
        /\ userIdCounter' = userIdCounter + 1
        /\ usersMap' = MapSet(usersMap, id, user)
        /\ lastOp' = [op |-> "createUser", id |-> user.id, user |-> NULL,
                      err |-> NoError, data |-> userData]
    /\ UNCHANGED <<vehiclesMap, ridesMap, ridesOrder, ratingsMap, vehicleIdCounter,
                   rideIdCounter, ratingIdCounter, now, transitions, calls, driverView, placesInput>>

createVehicle ==
    /\ lastOp = Idle
    /\ vehicleIdCounter <= MaxVehicles
    /\ \E vehicleData \in InsertVehicles :
        LET id == vehicleIdCounter
            vehicle == createVehicleRecord(vehicleData, id) IN
        /\ vehicleIdCounter' = vehicleIdCounter + 1
        /\ vehiclesMap' = MapSet(vehiclesMap, id, vehicle)
        /\ lastOp' = [op |-> "createVehicle", id |-> vehicle.id, user |-> NULL,
                      err |-> NoError, data |-> vehicleData]
    /\ UNCHANGED <<usersMap, ridesMap, ridesOrder, ratingsMap, userIdCounter,
                   rideIdCounter, ratingIdCounter, now, transitions, calls, driverView, placesInput>>

\* createRating(ratingData) with ratingData from inputs
createRatingCall(inputs) ==
    /\ lastOp = Idle
    /\ ratingIdCounter <= MaxRatings
    /\ \E ratingData \in inputs :
        LET id == ratingIdCounter
            rating == createRatingRecord(ratingData, id, now) IN
        /\ ratingIdCounter' = ratingIdCounter + 1
        /\ ratingsMap' = MapSet(ratingsMap, id, rating)
        /\ lastOp' = [op |-> "createRating", id |-> rating.id, user |-> NULL,
                      err |-> NoError, data |-> ratingData]
    /\ UNCHANGED <<usersMap, vehiclesMap, ridesMap, ridesOrder, userIdCounter,
                   vehicleIdCounter, rideIdCounter, now, transitions, calls, driverView, placesInput>>

createRating == createRatingCall(InsertRatings)

\* createRating with scores inside and outside 1..5
createRatingAnyScore == createRatingCall(AnyScoreRatings)

updateVehicleCall(partials) ==
    /\ lastOp = Idle
    /\ \E id \in VehicleIdArgs, vehicleData \in partials :
        LET err == updateVehicleError(vehiclesMap, id) IN
        /\ lastOp' = [op |-> "updateVehicle", id |-> id, user |-> NULL,
                      err |-> err, data |-> vehicleData]
        /\ IF err # NoError
           THEN UNCHANGED vehiclesMap
           ELSE vehiclesMap' = MapSet(vehiclesMap, id,
                                      Merge(vehiclesMap[id], vehicleData))
    /\ UNCHANGED <<usersMap, ridesMap, ridesOrder, ratingsMap, userIdCounter,
                   vehicleIdCounter, rideIdCounter, ratingIdCounter,
                   now, transitions, calls, driverView, placesInput>>

updateVehicle == updateVehicleCall(VehiclePartials)

\* The promise of the call settles: its caller takes the result or the error.
Return ==
    /\ lastOp # Idle
    /\ lastOp' = Idle
    /\ UNCHANGED <<store, now, transitions, calls, driverView, placesInput>>

\* Time passes between two calls: the next new Date() is later.
Tick ==
    /\ lastOp = Idle
    /\ now < MaxTime
    /\ now' = now + 1
    /\ UNCHANGED <<store, lastOp, transitions, calls, driverView, placesInput>>

Next ==
    \/ createRide
    \/ acceptRide
    \/ declineRide
    \/ markDriverArrived
    \/ startRide
    \/ completeRide
    \/ cancelRide
    \/ updateUser
    \/ updateVehicle
    \/ Return

\* The calls the store serves within one reading of the clock.  No guard of
\* the store reads a timestamp, so which calls succeed does not depend on it.
Spec == Init /\ [][Next]_vars

NextClock == Next \/ Tick

\* The same calls with time passing between them.
SpecClock == Init /\ [][NextClock]_vars

(***************************************************************************)
(* POST /api/ratings, for an authenticated user.                           *)
(***************************************************************************)
\* what the client sends as toUserId and rating (NULL: the field is left out)
BodyToUserIds == {NULL, 2}
BodyRatings == {NULL, 5}

\* the message of the response that is not 201, NoError for 201
postRatingError(rides, userId, body) ==
    LET ride == getRide(rides, body.rideId) IN
    IF body.rating = NULL THEN "Invalid rating data"
    ELSE IF ride = undefined THEN "Ride not found"
    ELSE IF ride.passengerId # userId /\ ride.driverId # userId
         THEN "Not authorized to rate this ride"
    ELSE NoError

\* mutant: the client's toUserId is kept when it sends one
postRatingData_clientWins(ride, userId, body) ==
    [rideId     |-> body.rideId,
     fromUserId |-> userId,
     toUserId   |-> IF body.toUserId # NULL THEN body.toUserId
                    ELSE IF userId = ride.passengerId THEN ride.driverId
                    ELSE ride.passengerId,
     rating     |-> body.rating]

\* { ...ratingData, toUserId } with ratingData = { ...req.body, fromUserId }
postRatingData(ride, userId, body) ==
    [rideId     |-> body.rideId,
     fromUserId |-> userId,
     toUserId   |-> IF userId = ride.passengerId THEN ride.driverId
                    ELSE ride.passengerId,
     rating     |-> body.rating]

postRatingCall(fromUserIds) ==
    /\ lastOp = Idle
    /\ \E userId \in UserIds, rideId \in RideIdArgs,
          fromUserId \in fromUserIds,
          toUserId \in BodyToUserIds, score \in BodyRatings :
        LET body == [rideId |-> rideId, fromUserId |-> fromUserId,
                     toUserId |-> toUserId, rating |-> score]
            err == postRatingError(ridesMap, userId, body)
            id == ratingIdCounter
        IN  /\ lastOp' = [op |-> "postRating",
                          id |-> IF err = NoError THEN id ELSE NULL,
                          user |-> userId, err |-> err, data |-> body]
            /\ IF err # NoError
               THEN UNCHANGED <<ratingsMap, ratingIdCounter>>
               ELSE /\ ratingIdCounter <= MaxRatings
                    /\ ratingIdCounter' = ratingIdCounter + 1
                    /\ ratingsMap' = MapSet(ratingsMap, id,
                            createRatingRecord(
                                postRatingData(ridesMap[rideId], userId, body),
                                id, now))
    /\ UNCHANGED <<usersMap, vehiclesMap, ridesMap, ridesOrder, userIdCounter,
                   vehicleIdCounter, rideIdCounter, now, transitions, calls, driverView, placesInput>>

\* a client that leaves fromUserId to the server
postRating == postRatingCall({NULL})

NextRatings ==
    \/ createRide
    \/ acceptRide
    \/ createRatingAnyScore
    \/ postRating
    \/ Return

\* Rides requested and accepted, and their participants rating them.
SpecRatings == Init /\ [][NextRatings]_vars

\* limit arguments callers pass to getUserRides
LimitArgs == {<<>>, <<0>>, <<1>>, <<2>>}

\* A query: the store is read and nothing is written.
QueryFrame == UNCHANGED <<store, now, transitions, calls, driverView, placesInput>>

\* a query called with arg and returning data
Query(op, arg, data) ==
    /\ lastOp = Idle
    /\ lastOp' = [op |-> op, id |-> arg, user |-> NULL, err |-> NoError,
                  data |-> data]
    /\ QueryFrame

Usernames == {"test", "ana"}

getUserCall ==
    \E id \in UserIdArgs : Query("getUser", id, getUser(usersMap, id))

getUserByUsernameCall ==
    \E username \in Usernames :
        /\ lastOp = Idle
        /\ lastOp' = [op |-> "getUserByUsername", id |-> NULL, user |-> NULL,
                      err |-> NoError, username |-> username,
                      data |-> getUserByUsername(usersMap, username)]
        /\ QueryFrame

getVehicleCall ==
    \E id \in VehicleIdArgs :
        Query("getVehicle", id, getVehicle(vehiclesMap, id))

getVehicleByDriverCall ==
    \E driverId \in UserIds :
        Query("getVehicleByDriver", driverId,
              getVehicleByDriver(vehiclesMap, driverId))

getRideCall ==
    \E id \in RideIdArgs : Query("getRide", id, getRide(ridesMap, id))

\* mutant: the ride that is found is moved to the end of the map
getActiveRideForUserCall_touches ==
    \E userId \in UserIds :
        LET ride == getActiveRideForUser(ridesMap, ridesOrder, userId) IN
        /\ lastOp = Idle
        /\ lastOp' = [op |-> "getActiveRideForUser", id |-> userId,
                      user |-> NULL, err |-> NoError, data |-> ride]
        /\ ridesOrder' = IF ride = undefined THEN ridesOrder
                         ELSE MapSetOrder_moveToEnd(ridesOrder, ride.id)
        /\ UNCHANGED <<usersMap, vehiclesMap, ridesMap, ratingsMap,
                       userIdCounter, vehicleIdCounter, rideIdCounter,
                       ratingIdCounter, now, transitions, calls, driverView, placesInput>>

getActiveRideForUserCall ==
    \E userId \in UserIds :
        Query("getActiveRideForUser", userId,
              getActiveRideForUser(ridesMap, ridesOrder, userId))

getDriverActiveRideCall ==
    \E driverId \in UserIds :
        Query("getDriverActiveRide", driverId,
              getDriverActiveRide(ridesMap, driverId))

getPassengerActiveRideCall ==
    \E passengerId \in UserIds :
        Query("getPassengerActiveRide", passengerId,
              getPassengerActiveRide(ridesMap, passengerId))

getRatingCall ==
    \E id \in 1..ratingIdCounter :
        Query("getRating", id, getRating(ratingsMap, id))

getUserRatingsCall ==
    \E userId \in UserIds :
        Query("getUserRatings", userId, getUserRatings(ratingsMap, userId))

getUserRidesCall ==
    /\ lastOp = Idle
    /\ \E userId \in UserIds, limitArg \in LimitArgs :
        lastOp' = [op |-> "getUserRides", id |-> userId, user |-> NULL,
                   err |-> NoError, limit |-> limitArg,
                   data |-> getUserRides(ridesMap, ridesOrder, userId, limitArg)]
    /\ QueryFrame

NextQueries ==
    \/ createUser
    \/ createVehicle
    \/ createRide
    \/ acceptRide
    \/ createRating
    \/ getUserCall
    \/ getUserByUsernameCall
    \/ getVehicleCall
    \/ getVehicleByDriverCall
    \/ getRideCall
    \/ getActiveRideForUserCall
    \/ getDriverActiveRideCall
    \/ getPassengerActiveRideCall
    \/ getUserRidesCall
    \/ getRatingCall
    \/ getUserRatingsCall
    \/ Return

\* The eleven queries, called on stores the creations and acceptRide build.
SpecQueries == Init /\ [][NextQueries]_vars

NextHistory ==
    \/ createRide
    \/ cancelRide
    \/ getUserRidesCall
    \/ Return
    \/ Tick

\* Rides requested and cancelled as time passes, and their history read.
SpecHistory == Init /\ [][NextHistory]_vars

NextEntities ==
    \/ createUser
    \/ updateUserProfile
    \/ updateUserStatus
    \/ createVehicle
    \/ updateVehicle
    \/ createRide
    \/ createRating
    \/ Return

\* The creations and updates of the four collections, one call at a time.
SpecEntities == Init /\ [][NextEntities]_vars

(***************************************************************************)
(* acceptRide as the event loop runs it.  The method is async: the caller   *)
(* runs it up to its first await, each await hands control back to the      *)
(* event loop, and the continuation runs when the loop picks it.  Calls     *)
(* that are pending together switch at these awaits and nowhere else.       *)
(***************************************************************************)
\* no call is pending or waiting for its caller
Quiet == \A c \in CallIds : calls[c].pc = "none"

AsyncFrame ==
    UNCHANGED <<usersMap, vehiclesMap, ratingsMap, userIdCounter,
                vehicleIdCounter, rideIdCounter, ratingIdCounter, now, lastOp, driverView, placesInput>>

\* acceptRide(rideId, driverId) is called: this.getRide(rideId) reads the map
\* at once, and the call is suspended at the await on its promise.
acceptRide_call ==
    /\ lastOp = Idle
    /\ \E c \in CallIds, rideId \in RideIdArgs, driverId \in UserIds :
        /\ calls[c].pc = "none"
        /\ calls' = [calls EXCEPT ![c] =
                [NoCall EXCEPT !.op = "acceptRide",
                               !.pc = "awaitGetRide",
                               !.rideId = rideId,
                               !.driverId = driverId,
                               !.ride = getRide(ridesMap, rideId)]]
    /\ UNCHANGED <<ridesMap, ridesOrder, transitions>>
    /\ AsyncFrame

\* The call resumes with the ride it read: the two checks on the ride, then
\* this.getDriverActiveRide(driverId) reads the map and the call is suspended
\* a second time.
acceptRide_afterGetRide ==
    /\ \E c \in CallIds :
        LET call == calls[c] IN
        /\ call.pc = "awaitGetRide"
        /\ calls' = [calls EXCEPT ![c] =
                IF call.ride = undefined
                THEN [call EXCEPT !.pc = "settled", !.err = "Ride not found"]
                ELSE IF call.ride.status # "requested"
                THEN [call EXCEPT !.pc = "settled",
                                  !.err = "Ride is not in requested status"]
                ELSE [call EXCEPT !.pc = "awaitGetDriverActiveRide",
                                  !.existingRide =
                                      getDriverActiveRide(ridesMap, call.driverId)]]
    /\ UNCHANGED <<ridesMap, ridesOrder, transitions>>
    /\ AsyncFrame

\* The call resumes with the driver's active ride it read: the driver guard,
\* then the write of the ride it read at the start, updated.
acceptRide_afterGetDriverActiveRide ==
    /\ \E c \in CallIds :
        LET call == calls[c] IN
        /\ call.pc = "awaitGetDriverActiveRide"
        /\ IF call.existingRide # undefined
           THEN /\ calls' = [calls EXCEPT ![c] =
                        [call EXCEPT !.pc = "settled",
                                     !.err = "Driver already has an active ride"]]
                /\ UNCHANGED <<ridesMap, ridesOrder, transitions>>
           ELSE /\ ridesOrder' = MapSetOrder(ridesOrder, call.rideId)
                /\ ridesMap' = MapSet(ridesMap, call.rideId,
                        acceptRideRecord(call.ride, call.driverId, now))
                /\ transitions' =
                        [transitions EXCEPT ![call.rideId] = @ \cup {"accept"}]
                /\ calls' = [calls EXCEPT ![c] =
                        [call EXCEPT !.pc = "settled", !.err = NoError]]
    /\ AsyncFrame

\* The caller of a settled call takes its result or its error.
acceptRide_return ==
    /\ \E c \in CallIds :
        /\ calls[c].op = "acceptRide"
        /\ calls[c].pc = "settled"
        /\ calls' = [calls EXCEPT ![c] = NoCall]
    /\ UNCHANGED <<ridesMap, ridesOrder, transitions>>
    /\ AsyncFrame

\* createRide with no call pending: nothing can run at its await.
createRide_alone == Quiet /\ createRide

\* createRide(rideData) is called: this.getPassengerActiveRide(passengerId)
\* reads the map at once, and the call is suspended at the await on it.
createRide_call ==
    /\ lastOp = Idle
    /\ \E c \in CallIds, rideData \in InsertRides :
        /\ calls[c].pc = "none"
        /\ calls' = [calls EXCEPT ![c] =
                [NoCall EXCEPT !.op = "createRide",
                               !.pc = "awaitGetPassengerActiveRide",
                               !.rideData = rideData,
                               !.existingRide =
                                   getPassengerActiveRide(ridesMap,
                                                          rideData.passengerId)]]
    /\ UNCHANGED <<ridesMap, ridesOrder, transitions>>
    /\ AsyncFrame

\* mutant: the guard is looked up again when the call resumes
createRide_afterGetPassengerActiveRide_rereads ==
    /\ \E c \in CallIds :
        LET call == calls[c]
            id == rideIdCounter
        IN  /\ call.pc = "awaitGetPassengerActiveRide"
            /\ IF createRideError(ridesMap, call.rideData) # NoError
               THEN /\ calls' = [calls EXCEPT ![c] =
                            [call EXCEPT !.pc = "settled",
                                         !.err = "Passenger already has an active ride"]]
                    /\ UNCHANGED <<ridesMap, ridesOrder, rideIdCounter, transitions>>
               ELSE /\ rideIdCounter <= MaxRides
                    /\ rideIdCounter' = rideIdCounter + 1
                    /\ ridesOrder' = MapSetOrder(ridesOrder, id)
                    /\ ridesMap' = MapSet(ridesMap, id,
                            createRideRecord(call.rideData, id, now))
                    /\ transitions' = MapSet(transitions, id, {})
                    /\ calls' = [calls EXCEPT ![c] =
                            [call EXCEPT !.pc = "settled", !.rideId = id,
                                         !.err = NoError]]
    /\ UNCHANGED <<usersMap, vehiclesMap, ratingsMap, userIdCounter,
                   vehicleIdCounter, ratingIdCounter, now, lastOp, driverView, placesInput>>

\* The call resumes with the active ride it read: the guard on it, then the
\* next id is taken and the new ride is written.
createRide_afterGetPassengerActiveRide ==
    /\ \E c \in CallIds :
        LET call == calls[c]
            id == rideIdCounter
        IN  /\ call.pc = "awaitGetPassengerActiveRide"
            /\ IF call.existingRide # undefined
               THEN /\ calls' = [calls EXCEPT ![c] =
                            [call EXCEPT !.pc = "settled",
                                         !.err = "Passenger already has an active ride"]]
                    /\ UNCHANGED <<ridesMap, ridesOrder, rideIdCounter, transitions>>
               ELSE /\ rideIdCounter <= MaxRides
                    /\ rideIdCounter' = rideIdCounter + 1
                    /\ ridesOrder' = MapSetOrder(ridesOrder, id)
                    /\ ridesMap' = MapSet(ridesMap, id,
                            createRideRecord(call.rideData, id, now))
                    /\ transitions' = MapSet(transitions, id, {})
                    /\ calls' = [calls EXCEPT ![c] =
                            [call EXCEPT !.pc = "settled", !.rideId = id,
                                         !.err = NoError]]
    /\ UNCHANGED <<usersMap, vehiclesMap, ratingsMap, userIdCounter,
                   vehicleIdCounter, ratingIdCounter, now, lastOp, driverView, placesInput>>

\* The caller of a settled createRide call takes the ride or the error.
createRide_return ==
    /\ \E c \in CallIds :
        /\ calls[c].op = "createRide"
        /\ calls[c].pc = "settled"
        /\ calls' = [calls EXCEPT ![c] = NoCall]
    /\ UNCHANGED <<ridesMap, ridesOrder, transitions>>
    /\ AsyncFrame

Return_alone == Quiet /\ Return

NextAsync ==
    \/ createRide_alone
    \/ Return_alone
    \/ acceptRide_call
    \/ acceptRide_afterGetRide
    \/ acceptRide_afterGetDriverActiveRide
    \/ acceptRide_return

\* Rides are requested one call at a time; acceptRide calls overlap.
SpecAsync == Init /\ [][NextAsync]_vars

\* cancelRide with no call pending
cancelRide_alone == Quiet /\ cancelRide

NextAsyncCreate ==
    \/ createRide_call
    \/ createRide_afterGetPassengerActiveRide
    \/ createRide_return
    \/ cancelRide_alone
    \/ Return_alone

\* createRide calls overlap; rides are cancelled one call at a time.
SpecAsyncCreate == Init /\ [][NextAsyncCreate]_vars

(***************************************************************************)
(* Properties.                                                             *)
(***************************************************************************)
ActiveStatuses == {"requested", "accepted", "in_progress"}
DrivingStatuses == {"accepted", "in_progress"}
TerminalStatuses == {"completed", "cancelled"}

\* the rides that count for the passenger guard / the driver guard of u
PassengerActive(u) ==
    {k \in DOMAIN ridesMap :
        ridesMap[k].passengerId = u /\ ridesMap[k].status \in ActiveStatuses}
DriverActive(u) ==
    {k \in DOMAIN ridesMap :
        ridesMap[k].driverId = u /\ ridesMap[k].status \in DrivingStatuses}

\* this step is a call of method op (the call starts when the store is idle)
Called(op) == lastOp = Idle /\ lastOp'.op = op

\* C1: after any sequence of store operations, every user is the passenger
\* of at most one ride in requested, accepted or in_progress and the driver
\* of at most one ride in accepted or in_progress.
C1_OneActiveRidePerRole ==
    \A u \in UserIds :
        /\ Cardinality(PassengerActive(u)) <= 1
        /\ Cardinality(DriverActive(u)) <= 1

\* C1 witness: a user has requested a second ride after the first completed,
\* and the same driver took both.
C1_Witness ==
    \E u \in UserIds, d \in UserIds :
        /\ DOMAIN ridesMap = {1, 2}
        /\ ridesMap[1].passengerId = u /\ ridesMap[2].passengerId = u
        /\ ridesMap[1].driverId = d /\ ridesMap[2].driverId = d
        /\ ridesMap[1].status = "completed"
        /\ ridesMap[2].status = "in_progress"

\* C2 as stated: no user is the passenger of one active ride and the driver
\* of another ride that a driver has taken (accepted or in_progress).
C2_OneActiveRidePerUser ==
    \A u \in UserIds :
        \A k1 \in PassengerActive(u), k2 \in DriverActive(u) : k1 = k2

\* C2 as amended: two distinct active rides of one user have the user in
\* different roles, as passenger of one (requested, accepted or in_progress)
\* and as driver of the other (accepted or in_progress).
C2_ActiveRidesDifferInRole ==
    \A u \in UserIds :
        \A k1 \in PassengerActive(u) \cup DriverActive(u),
           k2 \in PassengerActive(u) \cup DriverActive(u) :
            k1 # k2 =>
                /\ ~(k1 \in PassengerActive(u) /\ k2 \in PassengerActive(u))
                /\ ~(k1 \in DriverActive(u) /\ k2 \in DriverActive(u))

\* C2 witness: a user waits as passenger of one ride and drives another.
C2_Witness ==
    \E u \in UserIds :
        \E k1 \in PassengerActive(u), k2 \in DriverActive(u) :
            /\ k1 # k2
            /\ ridesMap[k2].passengerId # u
            /\ ridesMap[k1].driverId # u

\* C3: every stored ride has one of the five statuses, requestedAt is set
\* on every ride, and each other timestamp is set exactly when the ride has
\* undergone the transition it records (cancel and decline both record
\* cancelledAt).
C3_StatusAndTimestamps ==
    \A k \in DOMAIN ridesMap :
        /\ ridesMap[k].status \in RideStatuses
        /\ ridesMap[k].requestedAt # NULL
        /\ (ridesMap[k].acceptedAt # NULL) <=> ("accept" \in transitions[k])
        /\ (ridesMap[k].startedAt # NULL) <=> ("start" \in transitions[k])
        /\ (ridesMap[k].completedAt # NULL) <=> ("complete" \in transitions[k])
        /\ (ridesMap[k].cancelledAt # NULL) <=> ("cancel" \in transitions[k])

\* C3 witness: one ride was started and then cancelled, another was
\* cancelled before any driver accepted it.
C3_Witness ==
    /\ DOMAIN ridesMap = {1, 2}
    /\ transitions[1] = {"accept", "start", "cancel"}
    /\ ridesMap[1].startedAt # NULL /\ ridesMap[1].completedAt = NULL
    /\ transitions[2] = {"cancel"}
    /\ ridesMap[2].acceptedAt = NULL /\ ridesMap[2].cancelledAt # NULL

\* the six edges of the ride state machine
StatusEdges ==
    {<<"requested", "accepted">>, <<"requested", "cancelled">>,
     <<"accepted", "in_progress">>, <<"accepted", "cancelled">>,
     <<"in_progress", "completed">>, <<"in_progress", "cancelled">>}

\* C4: every change of a ride's status follows one of the six edges, and a
\* ride whose status is completed or cancelled keeps it in every later step.
C4_StatusEdges ==
    [][\A k \in DOMAIN ridesMap :
          /\ k \in DOMAIN ridesMap'
          /\ ridesMap'[k].status # ridesMap[k].status
                => <<ridesMap[k].status, ridesMap'[k].status>> \in StatusEdges
          /\ ridesMap[k].status \in TerminalStatuses
                => ridesMap'[k].status = ridesMap[k].status]_vars

\* C4 witness: a ride went requested, accepted, in_progress, completed and
\* a later cancelRide on it has just failed; the other ride was cancelled
\* while accepted.
C4_Witness ==
    /\ DOMAIN ridesMap = {1, 2}
    /\ transitions[1] = {"accept", "start", "complete"}
    /\ ridesMap[1].status = "completed"
    /\ transitions[2] = {"accept", "cancel"}
    /\ ridesMap[2].status = "cancelled"
    /\ lastOp.op = "cancelRide" /\ lastOp.id = 1 /\ lastOp.err # NoError


\* C5: createRide for a passenger who has a ride in requested, accepted or
\* in_progress fails with AlreadyActive, adds no ride and leaves the ride id
\* counter where it was.
C5_CreateRideAlreadyActive ==
    [][(Called("createRide") /\ PassengerActive(lastOp'.user) # {})
          => /\ ErrorKind(lastOp'.err) = "AlreadyActive"
             /\ ridesMap' = ridesMap
             /\ rideIdCounter' = rideIdCounter]_vars

\* C5 witness: createRide has just failed with AlreadyActive for a
\* passenger whose ride is under way, while the store could still take a ride.
C5_Witness ==
    /\ lastOp.op = "createRide"
    /\ ErrorKind(lastOp.err) = "AlreadyActive"
    /\ rideIdCounter <= MaxRides
    /\ \E k \in PassengerActive(lastOp.user) : ridesMap[k].status = "in_progress"

\* C6: the driver guard is per driver.  acceptRide on a requested ride fails
\* with AlreadyActive when the accepting driver has a ride in accepted or
\* in_progress, and succeeds when that driver has none, whatever the other
\* drivers are doing.
C6_DriverGuardPerDriver ==
    [][(/\ Called("acceptRide")
        /\ lastOp'.id \in DOMAIN ridesMap
        /\ ridesMap[lastOp'.id].status = "requested")
          => IF DriverActive(lastOp'.user) # {}
             THEN /\ ErrorKind(lastOp'.err) = "AlreadyActive"
                  /\ ridesMap' = ridesMap
             ELSE /\ lastOp'.err = NoError
                  /\ ridesMap'[lastOp'.id].status = "accepted"
                  /\ ridesMap'[lastOp'.id].driverId = lastOp'.user]_vars

\* C6 witness: D2 has just accepted a ride while D1 is mid-ride on another.
C6_Witness ==
    /\ lastOp.op = "acceptRide" /\ lastOp.err = NoError
    /\ \E k \in DOMAIN ridesMap :
        /\ k # lastOp.id
        /\ ridesMap[k].status \in DrivingStatuses
        /\ ridesMap[k].driverId # lastOp.user
        /\ ridesMap[k].driverId # NULL

\* C7: a call that fails leaves the four collections and the four id
\* counters exactly as they were before the call.
C7_FailureChangesNothing ==
    [][lastOp'.err # NoError => UNCHANGED store]_vars

\* C7 witness: acceptRide has just failed on its last guard, the driver
\* guard, after the ride was found and its status was right.
C7_Witness ==
    /\ lastOp.op = "acceptRide"
    /\ lastOp.err = "Driver already has an active ride"
    /\ ridesMap[lastOp.id].status = "requested"
    /\ ridesMap[lastOp.id].acceptedAt = NULL

\* C8: the happy path, step by step.  acceptRide by a free driver on a
\* requested ride yields accepted with that driver; startRide on an accepted
\* ride yields in_progress with startedAt set; completeRide on a ride in
\* progress yields completed with completedAt set; cancelRide on a completed
\* ride fails with InvalidTransition and the ride stays completed with
\* cancelledAt unset.
C8_HappyPath ==
    [][\A k \in DOMAIN ridesMap :
        lastOp'.id = k =>
          /\ (/\ Called("acceptRide")
              /\ ridesMap[k].status = "requested"
              /\ DriverActive(lastOp'.user) = {})
                => /\ lastOp'.err = NoError
                   /\ ridesMap'[k].status = "accepted"
                   /\ ridesMap'[k].driverId = lastOp'.user
          /\ (Called("startRide") /\ ridesMap[k].status = "accepted")
                => /\ lastOp'.err = NoError
                   /\ ridesMap'[k].status = "in_progress"
                   /\ ridesMap'[k].startedAt # NULL
          /\ (Called("completeRide") /\ ridesMap[k].status = "in_progress")
                => /\ lastOp'.err = NoError
                   /\ ridesMap'[k].status = "completed"
                   /\ ridesMap'[k].completedAt # NULL
          /\ (Called("cancelRide") /\ ridesMap[k].status = "completed")
                => /\ ErrorKind(lastOp'.err) = "InvalidTransition"
                   /\ ridesMap'[k].status = "completed"
                   /\ ridesMap'[k].cancelledAt = NULL]_vars

\* C8 witness: the ride went through accept, start and complete and the
\* cancelRide that followed has just failed with InvalidTransition.
C8_Witness ==
    /\ lastOp.op = "cancelRide"
    /\ ErrorKind(lastOp.err) = "InvalidTransition"
    /\ transitions[lastOp.id] = {"accept", "start", "complete"}
    /\ ridesMap[lastOp.id].status = "completed"
    /\ ridesMap[lastOp.id].driverId # NULL
    /\ ridesMap[lastOp.id].completedAt # NULL
    /\ ridesMap[lastOp.id].cancelledAt = NULL

\* C9: right after createRide succeeds for passenger P, getRide on the
\* returned id gives a ride with status requested, passengerId = P and
\* driverId null.
C9_CreateThenGet ==
    (lastOp.op = "createRide" /\ lastOp.err = NoError)
        => LET ride == getRide(ridesMap, lastOp.id) IN
           /\ ride # undefined
           /\ ride.status = "requested"
           /\ ride.passengerId = lastOp.user
           /\ ride.driverId = NULL

\* C10: once acceptRide has succeeded on a ride, every later acceptRide on
\* it, by any driver, fails with InvalidTransition and leaves the ride, its
\* driverId and acceptedAt included, as the first call wrote it.
C10_SecondAcceptFails ==
    [][\A k \in DOMAIN ridesMap :
        (Called("acceptRide") /\ lastOp'.id = k /\ "accept" \in transitions[k])
          => /\ ErrorKind(lastOp'.err) = "InvalidTransition"
             /\ ridesMap'[k] = ridesMap[k]
             /\ ridesMap'[k].driverId # NULL
             /\ ridesMap'[k].acceptedAt # NULL]_vars

\* C10 witness: the driver of an accepted ride has just called acceptRide
\* on it again and got InvalidTransition.
C10_Witness ==
    /\ lastOp.op = "acceptRide"
    /\ ErrorKind(lastOp.err) = "InvalidTransition"
    /\ ridesMap[lastOp.id].status = "accepted"
    /\ ridesMap[lastOp.id].driverId = lastOp.user


LifecycleOps ==
    {"acceptRide", "declineRide", "markDriverArrived", "startRide",
     "completeRide", "cancelRide"}

\* the statuses a lifecycle method takes a ride from
SourceStatuses(op) ==
    CASE op \in {"acceptRide", "declineRide"}     -> {"requested"}
      [] op \in {"markDriverArrived", "startRide"} -> {"accepted"}
      [] op = "completeRide"                       -> {"in_progress"}
      [] op = "cancelRide"                         -> ActiveStatuses

\* C11: each of the six lifecycle methods, called with a ride id that is not
\* in the store, fails with NotFound and changes nothing; acceptRide does so
\* even for a driver whose own active ride would trip the driver guard.
C11_UnknownRideNotFound ==
    [][\A op \in LifecycleOps :
        (Called(op) /\ lastOp'.id \notin DOMAIN ridesMap)
          => /\ ErrorKind(lastOp'.err) = "NotFound"
             /\ UNCHANGED store]_vars

\* C11 witness: a driver who is on an active ride has called acceptRide with
\* an id no ride has, and got NotFound.
C11_Witness ==
    /\ lastOp.op = "acceptRide"
    /\ lastOp.id \notin DOMAIN ridesMap
    /\ DriverActive(lastOp.user) # {}
    /\ ErrorKind(lastOp.err) = "NotFound"

\* C12 as stated: a lifecycle method called on a stored ride whose status is
\* outside the method's source statuses fails with InvalidTransition, and
\* the failure names both the required status and the ride's actual status.
C12_ErrorNamesRequiredAndActual ==
    [][\A op \in LifecycleOps : \A k \in DOMAIN ridesMap :
        (Called(op) /\ lastOp'.id = k
                    /\ ridesMap[k].status \notin SourceStatuses(op))
          => /\ ErrorKind(lastOp'.err) = "InvalidTransition"
             /\ SourceStatuses(op) \subseteq NamedStatuses(lastOp'.err)
             /\ ridesMap[k].status \in NamedStatuses(lastOp'.err)]_vars

\* C12 amended: a lifecycle method called on a stored ride whose status is
\* outside the method's source statuses fails with InvalidTransition and
\* changes nothing; the message names the required status alone (for
\* every method but cancelRide) and never depends on the actual status.
C12_WrongStatusInvalidTransition ==
    [][\A op \in LifecycleOps : \A k \in DOMAIN ridesMap :
        (Called(op) /\ lastOp'.id = k
                    /\ ridesMap[k].status \notin SourceStatuses(op))
          => /\ ErrorKind(lastOp'.err) = "InvalidTransition"
             /\ UNCHANGED store
             /\ op # "cancelRide"
                  => NamedStatuses(lastOp'.err) = SourceStatuses(op)
             /\ op = "cancelRide"
                  => lastOp'.err = "Ride cannot be cancelled"]_vars

\* C12 witness: startRide has been called on a ride that is still requested
\* and failed with a message that names accepted, not requested.
C12_Witness ==
    /\ lastOp.op = "startRide"
    /\ lastOp.id \in DOMAIN ridesMap
    /\ ridesMap[lastOp.id].status = "requested"
    /\ ErrorKind(lastOp.err) = "InvalidTransition"
    /\ NamedStatuses(lastOp.err) = {"accepted"}


\* C13: cancelRide succeeds on every ride that is requested, accepted or
\* in_progress: it sets status = cancelled and cancelledAt = now, so a
\* terminal status is one step away from every non-terminal ride, and the
\* cancelled ride is no longer the active ride of its passenger or driver.
C13_CancelFromEveryActiveStatus ==
    [][\A k \in DOMAIN ridesMap :
        (Called("cancelRide") /\ lastOp'.id = k
                              /\ ridesMap[k].status \in ActiveStatuses)
          => /\ lastOp'.err = NoError
             /\ ridesMap'[k].status = "cancelled"
             /\ ridesMap'[k].status \in TerminalStatuses
             /\ ridesMap'[k].cancelledAt = now
             /\ getPassengerActiveRide(ridesMap', ridesMap[k].passengerId)
                    # ridesMap'[k]
             /\ getDriverActiveRide(ridesMap', ridesMap[k].driverId)
                    # ridesMap'[k]
             /\ getActiveRideForUser(ridesMap', ridesOrder', ridesMap[k].passengerId)
                    # ridesMap'[k]]_vars

\* C13 witness: a ride that was accepted and started has been cancelled.
C13_Witness ==
    /\ lastOp.op = "cancelRide"
    /\ lastOp.err = NoError
    /\ transitions[lastOp.id] = {"accept", "start", "cancel"}
    /\ ridesMap[lastOp.id].status = "cancelled"
    /\ ridesMap[lastOp.id].cancelledAt = now

\* C14: declineRide on a requested ride succeeds and sets status = cancelled
\* and cancelledAt = now, leaving driverId and acceptedAt as they were; on a
\* ride in any other status it fails with InvalidTransition and changes
\* nothing.
C14_DeclineOnlyRequested ==
    [][\A k \in DOMAIN ridesMap :
        (Called("declineRide") /\ lastOp'.id = k)
          => IF ridesMap[k].status = "requested"
             THEN /\ lastOp'.err = NoError
                  /\ ridesMap'[k].status = "cancelled"
                  /\ ridesMap'[k].cancelledAt = now
                  /\ ridesMap'[k].driverId = ridesMap[k].driverId
                  /\ ridesMap'[k].acceptedAt = NULL
             ELSE /\ ErrorKind(lastOp'.err) = "InvalidTransition"
                  /\ UNCHANGED store]_vars

\* C14 witness: a requested ride has been declined and is cancelled with no
\* acceptedAt.
C14_Witness ==
    /\ lastOp.op = "declineRide"
    /\ lastOp.err = NoError
    /\ ridesMap[lastOp.id].status = "cancelled"
    /\ ridesMap[lastOp.id].cancelledAt = now
    /\ ridesMap[lastOp.id].acceptedAt = NULL
    /\ transitions[lastOp.id] = {"cancel"}

\* C15: markDriverArrived never changes the store: on an accepted ride it
\* succeeds and leaves every collection and counter as it was (so the ride
\* is still accepted and startRide still applies), on a stored ride in any
\* other status it fails with InvalidTransition.
C15_ArrivedChangesNothing ==
    [][Called("markDriverArrived")
          => /\ UNCHANGED store
             /\ \A k \in DOMAIN ridesMap :
                  lastOp'.id = k
                    => IF ridesMap[k].status = "accepted"
                       THEN /\ lastOp'.err = NoError
                            /\ startRideError(ridesMap', k) = NoError
                       ELSE ErrorKind(lastOp'.err) = "InvalidTransition"]_vars

\* C15 witness: markDriverArrived has succeeded on a ride, which is still
\* accepted and not started.
C15_Witness ==
    /\ lastOp.op = "markDriverArrived"
    /\ lastOp.err = NoError
    /\ ridesMap[lastOp.id].status = "accepted"
    /\ ridesMap[lastOp.id].startedAt = NULL

\* C16: createRide for passenger P succeeds exactly when no ride of P is
\* requested, accepted or in_progress, and acceptRide by driver D on a
\* requested ride succeeds exactly when no ride of D is accepted or
\* in_progress; a participant whose ride is over can take the next at once.
C16_GuardsExactlyActiveRides ==
    [][/\ Called("createRide")
            => (lastOp'.err = NoError <=> PassengerActive(lastOp'.user) = {})
       /\ \A k \in DOMAIN ridesMap :
            (Called("acceptRide") /\ lastOp'.id = k
                                  /\ ridesMap[k].status = "requested")
              => (lastOp'.err = NoError <=> DriverActive(lastOp'.user) = {})]_vars

\* C16 witness: a driver whose earlier ride is over has accepted another
\* ride, requested by the passenger of a ride that is over too.
C16_Witness ==
    /\ lastOp.op = "acceptRide"
    /\ lastOp.err = NoError
    /\ \E k \in DOMAIN ridesMap \ {lastOp.id} :
        /\ ridesMap[k].driverId = lastOp.user
        /\ ridesMap[k].passengerId = ridesMap[lastOp.id].passengerId
        /\ "accept" \in transitions[k]
        /\ ridesMap[k].status \in TerminalStatuses


\* C17 as stated: two acceptRide calls on one ride that were pending at once,
\* each having read the ride as requested and neither stopped by the driver
\* guard, end as if run one after the other: exactly one of them succeeds
\* and the other fails with InvalidTransition.
C17_OverlappingAcceptsSerial ==
    \A c \in CallIds : \A d \in CallIds \ {c} :
        (/\ calls[c].pc = "settled" /\ calls[d].pc = "settled"
         /\ calls[c].rideId = calls[d].rideId
         /\ calls[c].ride # undefined /\ calls[d].ride # undefined
         /\ calls[c].ride.status = "requested"
         /\ calls[d].ride.status = "requested"
         /\ ErrorKind(calls[c].err) # "AlreadyActive"
         /\ ErrorKind(calls[d].err) # "AlreadyActive")
          => \/ /\ calls[c].err = NoError
                /\ ErrorKind(calls[d].err) = "InvalidTransition"
             \/ /\ calls[d].err = NoError
                /\ ErrorKind(calls[c].err) = "InvalidTransition"

\* a successful creation into map, returning newId: the map held ids
\* 1 .. n-1 and now holds newId = n as well, under its own key
NthCreation(map, newMap, newId) ==
    /\ newId = Cardinality(DOMAIN map) + 1
    /\ newId \notin DOMAIN map
    /\ \A k \in DOMAIN map : k < newId /\ newMap[k] = map[k]
    /\ DOMAIN newMap = DOMAIN map \cup {newId}
    /\ newMap[newId].id = newId

\* C18: in each of the four collections the n-th successful creation returns
\* id n, counting from 1 with the seeded user as user 1; the new id is above
\* every id given before and none is given twice, and a creation moves the
\* counter and the collection of its own type only.
C18_IdentifierAssignment ==
    [][/\ 1 \in DOMAIN usersMap
       /\ Called("createUser")
            => /\ NthCreation(usersMap, usersMap', lastOp'.id)
               /\ userIdCounter' = lastOp'.id + 1
               /\ UNCHANGED <<vehiclesMap, ridesMap, ridesOrder, ratingsMap,
                              vehicleIdCounter, rideIdCounter, ratingIdCounter>>
       /\ Called("createVehicle")
            => /\ NthCreation(vehiclesMap, vehiclesMap', lastOp'.id)
               /\ vehicleIdCounter' = lastOp'.id + 1
               /\ UNCHANGED <<usersMap, ridesMap, ridesOrder, ratingsMap,
                              userIdCounter, rideIdCounter, ratingIdCounter>>
       /\ (Called("createRide") /\ lastOp'.err = NoError)
            => /\ NthCreation(ridesMap, ridesMap', lastOp'.id)
               /\ rideIdCounter' = lastOp'.id + 1
               /\ UNCHANGED <<usersMap, vehiclesMap, ratingsMap,
                              userIdCounter, vehicleIdCounter, ratingIdCounter>>
       /\ Called("createRating")
            => /\ NthCreation(ratingsMap, ratingsMap', lastOp'.id)
               /\ ratingIdCounter' = lastOp'.id + 1
               /\ UNCHANGED <<usersMap, vehiclesMap, ridesMap,
                              userIdCounter, vehicleIdCounter, rideIdCounter>>]_vars

\* C18 witness: createUser has returned id 2 in a store that has given out
\* two ride ids, one vehicle id and no rating id.
C18_Witness ==
    /\ lastOp.op = "createUser"
    /\ lastOp.id = 2
    /\ DOMAIN usersMap = {1, 2}
    /\ DOMAIN ridesMap = {1, 2}
    /\ DOMAIN vehiclesMap = {1}
    /\ ratingIdCounter = 1

\* C19: createUser fails when the new user's username or email is that of a
\* stored user, so no two stored users ever share a username or an email.
C19_UsernamesUnique ==
    \A a \in DOMAIN usersMap : \A b \in DOMAIN usersMap \ {a} :
        /\ usersMap[a].username # usersMap[b].username
        /\ usersMap[a].email # usersMap[b].email

\* what an update of map[id] with data must leave in newMap
UpdatedExactly(map, newMap, id, data) ==
    /\ DOMAIN newMap = DOMAIN map
    /\ \A k \in DOMAIN map \ {id} : newMap[k] = map[k]
    /\ DOMAIN newMap[id] = DOMAIN map[id]
    /\ \A f \in DOMAIN map[id] :
        newMap[id][f] = IF f \in DOMAIN data THEN data[f] ELSE map[id][f]

\* C20: updateUser, updateUserStatus and updateVehicle with an id that is
\* not stored fail with NotFound and change nothing; with a stored id they
\* leave the old record with the supplied fields overwritten, the other
\* fields as they were, and every other record and collection unchanged.
C20_UpdateMergesSuppliedFields ==
    [][/\ (Called("updateUser") \/ Called("updateUserStatus"))
            => IF lastOp'.id \notin DOMAIN usersMap
               THEN /\ ErrorKind(lastOp'.err) = "NotFound"
                    /\ UNCHANGED store
               ELSE /\ lastOp'.err = NoError
                    /\ UpdatedExactly(usersMap, usersMap', lastOp'.id, lastOp'.data)
                    /\ UNCHANGED <<vehiclesMap, ridesMap, ridesOrder, ratingsMap,
                                   userIdCounter, vehicleIdCounter,
                                   rideIdCounter, ratingIdCounter>>
       /\ Called("updateVehicle")
            => IF lastOp'.id \notin DOMAIN vehiclesMap
               THEN /\ ErrorKind(lastOp'.err) = "NotFound"
                    /\ UNCHANGED store
               ELSE /\ lastOp'.err = NoError
                    /\ UpdatedExactly(vehiclesMap, vehiclesMap',
                                      lastOp'.id, lastOp'.data)
                    /\ UNCHANGED <<usersMap, ridesMap, ridesOrder, ratingsMap,
                                   userIdCounter, vehicleIdCounter,
                                   rideIdCounter, ratingIdCounter>>]_vars

\* C20 witness: user 2, already online, has had username and email replaced
\* in one call: it is still online, and user 1 is as the constructor left it.
C20_Witness ==
    /\ lastOp.op = "updateUser"
    /\ lastOp.err = NoError
    /\ lastOp.id = 2
    /\ DOMAIN lastOp.data = {"username", "email"}
    /\ usersMap[2].username = "ana"
    /\ usersMap[2].isOnline = TRUE
    /\ usersMap[1] = createUserRecord(SeedUser, 1, 1)


\* the stored rides that have u as passenger or driver and are not over
ActiveFor(u) ==
    {k \in DOMAIN ridesMap :
        /\ (ridesMap[k].passengerId = u \/ ridesMap[k].driverId = u)
        /\ ridesMap[k].status \in ActiveStatuses}

\* C21: getActiveRideForUser(U) returns a ride exactly when some stored ride
\* has U as passenger or driver and is requested, accepted or in_progress,
\* and the ride it returns is the one of these with the smallest id: the
\* map yields the rides in the order of their ids, whatever was updated.
C21_ActiveRideIsSmallestId ==
    /\ ridesOrder = [i \in 1..Cardinality(DOMAIN ridesMap) |-> i]
    /\ \A u \in UserIds :
        LET ride == getActiveRideForUser(ridesMap, ridesOrder, u) IN
        /\ ride # undefined <=> ActiveFor(u) # {}
        /\ ActiveFor(u) # {} => ride = ridesMap[Min(ActiveFor(u))]

\* C21 witness: a user has two active rides, the older one updated after the
\* newer one was created, and the query returns the older one.
C21_Witness ==
    \E u \in UserIds :
        /\ ActiveFor(u) = {1, 2}
        /\ ridesMap[1].acceptedAt # NULL
        /\ ridesMap[2].driverId = u
        /\ getActiveRideForUser(ridesMap, ridesOrder, u).id = 1


\* the stored rides that have u as passenger or driver, whatever their status
RidesOf(u) ==
    {k \in DOMAIN ridesMap :
        ridesMap[k].passengerId = u \/ ridesMap[k].driverId = u}

\* C22: getUserRides(U, limit) returns rides of U as they are stored, each
\* once, terminal ones included, most recently requested first; it returns
\* min(limit, number of U's rides) of them, limit being 10 when left out,
\* and no ride of U it leaves out was requested later than one it returns.
C22_UserRidesMostRecentFirst ==
    lastOp.op = "getUserRides"
      => LET result == lastOp.data
             n == Len(result)
             returned == {result[i].id : i \in 1..n}
             limit == IF lastOp.limit = <<>> THEN 10 ELSE lastOp.limit[1]
             count == Cardinality(RidesOf(lastOp.id))
         IN  /\ \A i \in 1..n : /\ result[i].id \in RidesOf(lastOp.id)
                                /\ result[i] = ridesMap[result[i].id]
             /\ Cardinality(returned) = n
             /\ n = IF limit < count THEN limit ELSE count
             /\ \A i \in 1..n : \A j \in i..n :
                    result[i].requestedAt >= result[j].requestedAt
             /\ \A k \in RidesOf(lastOp.id) \ returned : \A i \in 1..n :
                    ridesMap[k].requestedAt <= result[i].requestedAt

\* C22 witness: the user has an older ride that is over and a newer one, and
\* getUserRides with limit 1 has returned the newer one alone.
C22_Witness ==
    /\ lastOp.op = "getUserRides"
    /\ lastOp.limit = <<1>>
    /\ RidesOf(lastOp.id) = {1, 2}
    /\ ridesMap[1].status = "cancelled"
    /\ ridesMap[1].requestedAt < ridesMap[2].requestedAt
    /\ Len(lastOp.data) = 1
    /\ lastOp.data[1].id = 2


C24_CreateRatingNeverRejects ==
    [][/\ \A k \in DOMAIN ratingsMap :
            k \in DOMAIN ratingsMap' /\ ratingsMap'[k] = ratingsMap[k]
       /\ Called("createRating")
            => /\ lastOp'.err = NoError
               /\ NthCreation(ratingsMap, ratingsMap', lastOp'.id)
               /\ LET rating == ratingsMap'[lastOp'.id] IN
                  /\ rating.rideId = lastOp'.data.rideId
                  /\ rating.fromUserId = lastOp'.data.fromUserId
                  /\ rating.toUserId = lastOp'.data.toUserId
                  /\ rating.rating = lastOp'.data.rating]_vars

\* C24 witness: createRating has stored a second rating for the same ride,
\* rater and rated user as the first, with the score 6.
C24_Witness ==
    /\ lastOp.op = "createRating"
    /\ lastOp.id = 2
    /\ ratingsMap[2].rating = 6
    /\ ratingsMap[1].rideId = ratingsMap[2].rideId
    /\ ratingsMap[1].fromUserId = ratingsMap[2].fromUserId
    /\ ratingsMap[1].toUserId = ratingsMap[2].toUserId


QueryOps ==
    {"getUser", "getUserByUsername", "getVehicle", "getVehicleByDriver",
     "getRide", "getActiveRideForUser", "getDriverActiveRide",
     "getPassengerActiveRide", "getUserRides", "getRating", "getUserRatings"}

\* what the query of call returns on the store as it is now
QueryResult(call) ==
    CASE call.op = "getUser" -> getUser(usersMap, call.id)
      [] call.op = "getUserByUsername" ->
            getUserByUsername(usersMap, call.username)
      [] call.op = "getVehicle" -> getVehicle(vehiclesMap, call.id)
      [] call.op = "getVehicleByDriver" ->
            getVehicleByDriver(vehiclesMap, call.id)
      [] call.op = "getRide" -> getRide(ridesMap, call.id)
      [] call.op = "getActiveRideForUser" ->
            getActiveRideForUser(ridesMap, ridesOrder, call.id)
      [] call.op = "getDriverActiveRide" ->
            getDriverActiveRide(ridesMap, call.id)
      [] call.op = "getPassengerActiveRide" ->
            getPassengerActiveRide(ridesMap, call.id)
      [] call.op = "getUserRides" ->
            getUserRides(ridesMap, ridesOrder, call.id, call.limit)
      [] call.op = "getRating" -> getRating(ratingsMap, call.id)
      [] call.op = "getUserRatings" -> getUserRatings(ratingsMap, call.id)

\* C25: each of the eleven queries leaves every collection, with its order,
\* and every id counter as it was, and the same query asked again on the
\* store it leaves returns what it has just returned.
C25_QueriesChangeNothing ==
    [][(lastOp = Idle /\ lastOp'.op \in QueryOps)
          => /\ UNCHANGED store
             /\ lastOp'.data = QueryResult(lastOp)']_vars

\* C25 witness: getUserRatings has returned two ratings, and the store still
\* holds them and its rides.
C25_Witness ==
    /\ lastOp.op = "getUserRatings"
    /\ Len(lastOp.data) = 2
    /\ DOMAIN ratingsMap = {1, 2}
    /\ DOMAIN ridesMap = {1, 2}
    /\ ratingIdCounter = 3


\* C26: createRide checks the active ride it read when it was called, not
\* the store it resumes on: a call that read no active ride for passenger P
\* succeeds and adds a requested ride of P whatever was written while it
\* was suspended, so two calls for P started before either completes both
\* pass the guard and leave two requested rides of P.
C26_CreateRideGuardIsStale ==
    [][\A c \in CallIds :
        (/\ calls[c].pc = "awaitGetPassengerActiveRide"
         /\ calls'[c].pc = "settled"
         /\ calls[c].existingRide = undefined)
          => LET id == calls'[c].rideId IN
             /\ calls'[c].err = NoError
             /\ id \notin DOMAIN ridesMap
             /\ ridesMap'[id].passengerId = calls[c].rideData.passengerId
             /\ ridesMap'[id].status = "requested"
             /\ \A k \in DOMAIN ridesMap : ridesMap'[k] = ridesMap[k]]_vars

\* C26 witness: two createRide calls for one passenger have both settled
\* without error, and the store holds their two rides, both requested.
C26_Witness ==
    \E c \in CallIds : \E d \in CallIds \ {c} :
        /\ calls[c].op = "createRide" /\ calls[d].op = "createRide"
        /\ calls[c].pc = "settled" /\ calls[d].pc = "settled"
        /\ calls[c].err = NoError /\ calls[d].err = NoError
        /\ calls[c].rideData.passengerId = calls[d].rideData.passengerId
        /\ calls[c].rideId # calls[d].rideId
        /\ ridesMap[calls[c].rideId].status = "requested"
        /\ ridesMap[calls[d].rideId].status = "requested"
        /\ ridesMap[calls[c].rideId].passengerId
             = ridesMap[calls[d].rideId].passengerId


\* C27: acceptRide reports its failures in the order NotFound, then
\* InvalidTransition, then AlreadyActive: a missing ride gives NotFound, a
\* stored ride that is not requested gives InvalidTransition even when the
\* accepting driver already has an accepted or in_progress ride, and
\* AlreadyActive is reported only for a requested ride.
C27_AcceptFailurePriority ==
    [][Called("acceptRide") =>
        LET k    == lastOp'.id
            kind == ErrorKind(lastOp'.err) IN
        /\ k \notin DOMAIN ridesMap => kind = "NotFound"
        /\ (k \in DOMAIN ridesMap /\ ridesMap[k].status # "requested")
             => kind = "InvalidTransition"
        /\ kind = "AlreadyActive"
             => /\ k \in DOMAIN ridesMap
                /\ ridesMap[k].status = "requested"
                /\ DriverActive(lastOp'.user) # {}]_vars

\* C27 witness: a driver who is on an active ride has called acceptRide on
\* another stored ride that is not requested, and got InvalidTransition.
C27_Witness ==
    /\ lastOp.op = "acceptRide"
    /\ lastOp.id \in DOMAIN ridesMap
    /\ ridesMap[lastOp.id].status # "requested"
    /\ DriverActive(lastOp.user) \ {lastOp.id} # {}
    /\ ErrorKind(lastOp.err) = "InvalidTransition"


(***************************************************************************)
(* The driver's panel (DriverView.tsx).  The component reaches the store   *)
(* only through PATCH requests; what the server answers depends on a store *)
(* that every other client writes too, so each answer is drawn from the    *)
(* two outcomes the component handles, onSuccess and onError.              *)
(***************************************************************************)
ViewFrame ==
    UNCHANGED <<store, now, lastOp, transitions, calls, placesInput>>

\* The ride-request effect: an online driver with no ride and no request is
\* shown a request, and the countdown is armed.
rideRequestEffect ==
    /\ driverView.rideState = "no-rides"
    /\ driverView.rideRequest = NULL
    /\ driverView' = [driverView EXCEPT !.rideRequest = DemoRideId,
                                        !.rideState = "request",
                                        !.countdown = CountdownStart,
                                        !.countdownActive = TRUE,
                                        !.clicked = FALSE,
                                        !.autoDeclines = 0]
    /\ ViewFrame

\* mutant: the timer drops the countdown straight to zero
countdownEffect_timer_toZero ==
    /\ driverView.countdownActive
    /\ driverView.countdown > 0
    /\ driverView' = [driverView EXCEPT !.countdown = 0]
    /\ ViewFrame

\* The countdown effect, first branch: the one-second timer fires.
countdownEffect_timer ==
    /\ driverView.countdownActive
    /\ driverView.countdown > 0
    /\ driverView' = [driverView EXCEPT !.countdown = driverView.countdown - 1]
    /\ ViewFrame

\* The countdown effect, second branch: the countdown is at zero; it is
\* switched off and, if a request is held, declined.
countdownEffect_expired ==
    /\ driverView.countdownActive
    /\ driverView.countdown <= 0
    /\ driverView' =
         IF driverView.rideRequest # NULL
         THEN [driverView EXCEPT
                 !.countdownActive = FALSE,
                 !.declinePending = driverView.declinePending + 1,
                 !.autoDeclines = driverView.autoDeclines + 1]
         ELSE [driverView EXCEPT !.countdownActive = FALSE]
    /\ ViewFrame

\* The two buttons of the request panel.  A button is pressed again only
\* once its earlier request has been answered.
clickAccept ==
    /\ driverView.rideState = "request"
    /\ driverView.rideRequest # NULL
    /\ driverView.acceptPending = 0
    /\ driverView' = [driverView EXCEPT !.acceptPending = 1, !.clicked = TRUE]
    /\ ViewFrame

clickDecline ==
    /\ driverView.rideState = "request"
    /\ driverView.rideRequest # NULL
    /\ driverView.declinePending = 0
    /\ driverView' = [driverView EXCEPT !.declinePending = 1, !.clicked = TRUE]
    /\ ViewFrame

\* acceptRideMutation: the answer to a PATCH .../accept arrives.
acceptRideMutation ==
    /\ driverView.acceptPending > 0
    /\ \E ok \in BOOLEAN :
        driverView' =
          IF ok
          THEN [driverView EXCEPT
                  !.acceptPending = driverView.acceptPending - 1,
                  !.rideState = "active-picking-up"]
          ELSE [driverView EXCEPT
                  !.acceptPending = driverView.acceptPending - 1]
    /\ ViewFrame

\* declineRideMutation: the answer to a PATCH .../decline arrives.
declineRideMutation ==
    /\ driverView.declinePending > 0
    /\ \E ok \in BOOLEAN :
        driverView' =
          IF ok
          THEN [driverView EXCEPT
                  !.declinePending = driverView.declinePending - 1,
                  !.rideRequest = NULL,
                  !.rideState = "no-rides"]
          ELSE [driverView EXCEPT
                  !.declinePending = driverView.declinePending - 1]
    /\ ViewFrame

\* The panel of one driver beside a store that passengers and drivers call.
NextDriverView ==
    \/ rideRequestEffect
    \/ countdownEffect_timer
    \/ countdownEffect_expired
    \/ clickAccept
    \/ clickDecline
    \/ acceptRideMutation
    \/ declineRideMutation
    \/ createRide
    \/ declineRide
    \/ Return

SpecDriverView == Init /\ [][NextDriverView]_vars


\* the panel shows a request that the driver has not answered
RequestUntouched ==
    /\ driverView.rideState = "request"
    /\ driverView.rideRequest # NULL
    /\ ~driverView.clicked

\* this step shows a new ride request
RequestShown ==
    driverView.rideState # "request" /\ driverView'.rideState = "request"

\* this step is the countdown sending a decline
AutoDeclineIssued == driverView'.autoDeclines = driverView.autoDeclines + 1

\* C28: a ride request is shown with the countdown armed at 15; the
\* countdown moves only one down per timer tick while it is armed; when it
\* is at zero with a request held the panel sends one decline and disarms
\* the countdown, and sends no other automatic decline for that request; a
\* request the driver leaves alone stays counted down until then.  No step
\* of the panel and no passing of time changes a requested ride of the
\* store: only acceptRide, declineRide or cancelRide called on it does.
C28_CountdownDeclinesOnce ==
    [][/\ RequestShown
            => /\ driverView'.countdown = CountdownStart
               /\ driverView'.countdownActive
               /\ driverView'.autoDeclines = 0
       /\ (driverView'.countdown # driverView.countdown /\ ~RequestShown)
            => /\ driverView.countdownActive
               /\ driverView.countdown > 0
               /\ driverView'.countdown = driverView.countdown - 1
       /\ driverView'.autoDeclines # driverView.autoDeclines
            => RequestShown \/ AutoDeclineIssued
       /\ AutoDeclineIssued
            => /\ driverView.countdownActive
               /\ driverView.countdown = 0
               /\ driverView.autoDeclines = 0
               /\ ~driverView'.countdownActive
               /\ driverView'.declinePending = driverView.declinePending + 1
               /\ driverView'.rideRequest = driverView.rideRequest
       /\ (RequestUntouched /\ driverView.countdownActive
                            /\ ~driverView'.countdownActive)
            => AutoDeclineIssued
       /\ RequestUntouched
            => \/ driverView.countdownActive /\ driverView.autoDeclines = 0
               \/ /\ driverView.countdown = 0
                  /\ driverView.autoDeclines = 1
       /\ \A k \in DOMAIN ridesMap :
            (ridesMap[k].status = "requested" /\ ridesMap'[k] # ridesMap[k])
              => /\ lastOp = Idle
                 /\ lastOp'.op \in {"acceptRide", "declineRide", "cancelRide"}
                 /\ lastOp'.id = k]_vars

\* C28 witness: the driver has left a request alone, the countdown has run
\* to zero and is disarmed, one decline has been sent and is unanswered,
\* and the store holds a requested ride that no call has touched.
C28_Witness ==
    /\ RequestUntouched
    /\ driverView.countdown = 0
    /\ ~driverView.countdownActive
    /\ driverView.autoDeclines = 1
    /\ driverView.declinePending = 1
    /\ \E k \in DOMAIN ridesMap :
         ridesMap[k].status = "requested" /\ transitions[k] = {}


\* C29 as stated: once acceptRide has succeeded and the panel is in
\* 'active-picking-up', the countdown sends no automatic decline for the
\* ride it holds.
C29_NoAutoDeclineAfterAccept ==
    [][(driverView.rideState = "active-picking-up"
          /\ driverView.rideRequest = DemoRideId)
         => ~AutoDeclineIssued]_vars


\* C30 as stated: a requested ride has driverId null, an accepted,
\* in_progress or completed ride has a driverId, and the driverId that
\* acceptRide wrote on a ride is never changed by a later operation.
C30_DriverIdFollowsStatus ==
    /\ [](\A k \in DOMAIN ridesMap :
            /\ ridesMap[k].status = "requested" => ridesMap[k].driverId = NULL
            /\ ridesMap[k].status \in {"accepted", "in_progress", "completed"}
                 => ridesMap[k].driverId # NULL)
    /\ [][\A k \in DOMAIN ridesMap :
            "accept" \in transitions[k]
              => ridesMap'[k].driverId = ridesMap[k].driverId]_vars


(***************************************************************************)
(* Updates whose partial data names the id column.  Partial<User> and      *)
(* Partial<Vehicle> make every column optional, id among them.             *)
(***************************************************************************)
IdUserPartials == {[isOnline |-> TRUE], [id |-> 2]}
IdVehiclePartials == {[color |-> "red"], [id |-> 2]}

updateUserWithId == updateUserCall("updateUser", IdUserPartials)

updateVehicleWithId == updateVehicleCall(IdVehiclePartials)

NextUpdates ==
    \/ createUser
    \/ updateUserWithId
    \/ createVehicle
    \/ updateVehicleWithId
    \/ createRide
    \/ createRating
    \/ Return

SpecUpdates == Init /\ [][NextUpdates]_vars

\* C31 as stated: every stored user, vehicle, ride and rating carries in
\* its id field the key it is stored under, after any creations and
\* updates, updates whose partial data has an id field included.
C31_IdEqualsKey ==
    /\ \A k \in DOMAIN usersMap : usersMap[k].id = k
    /\ \A k \in DOMAIN vehiclesMap : vehiclesMap[k].id = k
    /\ \A k \in DOMAIN ridesMap : ridesMap[k].id = k
    /\ \A k \in DOMAIN ratingsMap : ratingsMap[k].id = k


\* the columns a lifecycle method writes on the ride it is called on
WrittenColumns(op) ==
    CASE op = "acceptRide"        -> {"driverId", "status", "acceptedAt"}
      [] op = "declineRide"       -> {"status", "cancelledAt"}
      [] op = "markDriverArrived" -> {}
      [] op = "startRide"         -> {"status", "startedAt"}
      [] op = "completeRide"      -> {"status", "completedAt"}
      [] op = "cancelRide"        -> {"status", "cancelledAt"}

\* C32: a lifecycle call that succeeds on ride r changes no other ride, no
\* user, vehicle or rating and no id counter, adds and removes no ride, and
\* on r writes only the status, the timestamp of its transition and, for
\* acceptRide, driverId: every other column of r keeps its value.
C32_LifecycleFrame ==
    [][\A op \in LifecycleOps :
        (Called(op) /\ lastOp'.err = NoError)
          => LET r == lastOp'.id IN
             /\ r \in DOMAIN ridesMap
             /\ DOMAIN ridesMap' = DOMAIN ridesMap
             /\ ridesOrder' = ridesOrder
             /\ \A k \in DOMAIN ridesMap \ {r} : ridesMap'[k] = ridesMap[k]
             /\ DOMAIN ridesMap'[r] = DOMAIN ridesMap[r]
             /\ \A f \in DOMAIN ridesMap[r] \ WrittenColumns(op) :
                  ridesMap'[r][f] = ridesMap[r][f]
             /\ UNCHANGED <<usersMap, vehiclesMap, ratingsMap, userIdCounter,
                            vehicleIdCounter, rideIdCounter, ratingIdCounter>>]_vars

\* C32 witness: cancelRide has just succeeded on a ride that had been
\* accepted and started; the ride still has its driver and both earlier
\* timestamps, and the store holds another ride.
C32_Witness ==
    /\ lastOp.op = "cancelRide"
    /\ lastOp.err = NoError
    /\ ridesMap[lastOp.id].status = "cancelled"
    /\ ridesMap[lastOp.id].driverId # NULL
    /\ ridesMap[lastOp.id].acceptedAt # NULL
    /\ ridesMap[lastOp.id].startedAt # NULL
    /\ DOMAIN ridesMap \ {lastOp.id} # {}


(***************************************************************************)
(* The rides of one passenger as time passes.                              *)
(***************************************************************************)
\* the InsertRide values POST /api/rides passes for passenger 1 when the
\* body names no driver
PlainRides ==
    {rideData \in InsertRides :
        rideData.passengerId = 1 /\ rideData.driverId = NULL}

createRidePlain == createRideCall(PlainRides)

NextTimestamps ==
    \/ createRidePlain
    \/ acceptRide
    \/ declineRide
    \/ startRide
    \/ completeRide
    \/ cancelRide
    \/ Return
    \/ Tick

SpecTimestamps == Init /\ [][NextTimestamps]_vars

\* the timestamps of a ride that are set, among the given columns
StampsSet(ride, columns) == {ride[f] : f \in {c \in columns : ride[c] # NULL}}

\* C33: with a clock that never goes back, on every ride the timestamps
\* that are set satisfy requestedAt <= acceptedAt <= startedAt <=
\* completedAt, cancelledAt is at least every other timestamp of the ride,
\* startedAt is set only with acceptedAt, completedAt only with startedAt,
\* and completedAt and cancelledAt are never both set.
C33_TimestampsOrdered ==
    \A k \in DOMAIN ridesMap :
        LET ride == ridesMap[k] IN
        /\ ride.requestedAt # NULL
        /\ \A t \in StampsSet(ride, {"acceptedAt", "startedAt", "completedAt"}) :
             ride.requestedAt <= t
        /\ ride.acceptedAt # NULL
             => \A t \in StampsSet(ride, {"startedAt", "completedAt"}) :
                  ride.acceptedAt <= t
        /\ (ride.startedAt # NULL /\ ride.completedAt # NULL)
             => ride.startedAt <= ride.completedAt
        /\ ride.cancelledAt # NULL
             => \A t \in StampsSet(ride, {"requestedAt", "acceptedAt",
                                          "startedAt", "completedAt"}) :
                  t <= ride.cancelledAt
        /\ ride.startedAt # NULL => ride.acceptedAt # NULL
        /\ ride.completedAt # NULL => ride.startedAt # NULL
        /\ ~(ride.completedAt # NULL /\ ride.cancelledAt # NULL)

\* C33 witness: a ride went through its whole life while the clock moved,
\* and another was cancelled after it had started.
C33_Witness ==
    /\ \E k \in DOMAIN ridesMap :
         /\ ridesMap[k].status = "completed"
         /\ ridesMap[k].requestedAt < ridesMap[k].completedAt
    /\ \E k \in DOMAIN ridesMap :
         /\ ridesMap[k].status = "cancelled"
         /\ ridesMap[k].startedAt # NULL


\* C34 as stated: acceptRide(r, D) does not succeed when D is the passenger
\* of r, and no stored ride with a driver has that driver as its passenger.
C34_PassengerIsNotDriver ==
    /\ [][\A k \in DOMAIN ridesMap :
            (Called("acceptRide") /\ lastOp'.id = k
                                  /\ lastOp'.user = ridesMap[k].passengerId)
              => lastOp'.err # NoError]_vars
    /\ [](\A k \in DOMAIN ridesMap :
            ridesMap[k].driverId # NULL
              => ridesMap[k].passengerId # ridesMap[k].driverId)


\* C35 as stated: in every reachable state and for every user U,
\* getActiveRideForUser(U) returns a ride exactly when
\* getPassengerActiveRide(U) or getDriverActiveRide(U) returns one.
C35_ActiveQueriesAgree ==
    \A u \in UserIds :
        getActiveRideForUser(ridesMap, ridesOrder, u) # undefined
          <=> \/ getPassengerActiveRide(ridesMap, u) # undefined
              \/ getDriverActiveRide(ridesMap, u) # undefined


(***************************************************************************)
(* The ride routes of registerRoutes, for an authenticated user.  req.user *)
(* is a stored user; each handler runs to its response before the next.    *)
(***************************************************************************)
DriverRoutes == {"accept", "decline", "arrived", "start", "complete"}
RideRoutes == DriverRoutes \cup {"cancel"}

\* the error the storage method of a route throws, NoError when it returns
storageError(route, rides, rideId, userId) ==
    CASE route = "cancel"   -> cancelRideError(rides, rideId)
      [] route = "accept"   -> acceptRideError(rides, rideId, userId)
      [] route = "decline"  -> declineRideError(rides, rideId)
      [] route = "arrived"  -> markDriverArrivedError(rides, rideId)
      [] route = "start"    -> startRideError(rides, rideId)
      [] route = "complete" -> completeRideError(rides, rideId)

\* the 500 message of a route's catch block
caughtMessage(route) ==
    CASE route = "cancel"   -> "Error cancelling ride"
      [] route = "accept"   -> "Error accepting ride"
      [] route = "decline"  -> "Error declining ride"
      [] route = "arrived"  -> "Error marking arrival"
      [] route = "start"    -> "Error starting ride"
      [] route = "complete" -> "Error completing ride"

\* the message of the response that is not 200, NoError for 200
patchRideError(route, rides, rideId, user) ==
    LET ride == getRide(rides, rideId) IN
    IF route \in DriverRoutes /\ user.userType # "driver" THEN "Unauthorized"
    ELSE IF ride = undefined THEN "Ride not found"
    ELSE IF route = "cancel" /\ ride.passengerId # user.id
                             /\ ride.driverId # user.id
         THEN "Not authorized to cancel this ride"
    ELSE IF route \in {"accept", "decline"} /\ ride.status # "requested"
         THEN "Ride is not in requested status"
    ELSE IF route = "arrived"
              /\ (ride.status # "accepted" \/ ride.driverId # user.id)
         THEN "Cannot mark arrival for this ride"
    ELSE IF route = "start"
              /\ (ride.status # "accepted" \/ ride.driverId # user.id)
         THEN "Cannot start this ride"
    ELSE IF route = "complete"
              /\ (ride.status # "in_progress" \/ ride.driverId # user.id)
         THEN "Cannot complete this ride"
    ELSE IF storageError(route, rides, rideId, user.id) # NoError
         THEN caughtMessage(route)
    ELSE NoError

\* the ride the storage method of a route stores
patchRideRecord(route, ride, userId, t) ==
    CASE route = "cancel"   -> cancelRideRecord(ride, t)
      [] route = "accept"   -> acceptRideRecord(ride, userId, t)
      [] route = "decline"  -> declineRideRecord(ride, t)
      [] route = "arrived"  -> ride
      [] route = "start"    -> startRideRecord(ride, t)
      [] route = "complete" -> completeRideRecord(ride, t)

\* the transition a route's storage method records on the ride
routeTransition(route) ==
    CASE route \in {"cancel", "decline"} -> {"cancel"}
      [] route = "accept"                -> {"accept"}
      [] route = "arrived"               -> {}
      [] route = "start"                 -> {"start"}
      [] route = "complete"              -> {"complete"}

\* PATCH /api/rides/:id/<route> by a stored user
patchRide(route) ==
    /\ lastOp = Idle
    /\ \E u \in DOMAIN usersMap, rideId \in RideIdArgs :
        LET user == usersMap[u]
            err  == patchRideError(route, ridesMap, rideId, user)
        IN  /\ lastOp' = [op |-> route, id |-> rideId, user |-> user.id,
                          err |-> err]
            /\ IF err # NoError \/ route = "arrived"
               THEN UNCHANGED <<ridesMap, ridesOrder, transitions>>
               ELSE /\ ridesOrder' = MapSetOrder(ridesOrder, rideId)
                    /\ ridesMap' = MapSet(ridesMap, rideId,
                           patchRideRecord(route, ridesMap[rideId], user.id, now))
                    /\ transitions' = [transitions EXCEPT
                           ![rideId] = @ \cup routeTransition(route)]
    /\ UNCHANGED rideIdCounter
    /\ RidesOnly

patchRideCancel == patchRide("cancel")
patchRideAccept == patchRide("accept")
patchRideDecline == patchRide("decline")
patchRideArrived == patchRide("arrived")
patchRideStart == patchRide("start")
patchRideComplete == patchRide("complete")

\* what a client sends to POST /api/rides: any InsertRide column, the
\* passenger, the driver and the status among them
RideBodies == InsertRides

\* mutant: the spread the other way round, the body's passengerId wins
postRideData_bodyWins(body, user) == body

\* insertRideSchema.parse({ ...req.body, passengerId: req.user.id })
postRideData(body, user) == [body EXCEPT !.passengerId = user.id]

\* POST /api/rides by a stored user
postRideCall(bodies) ==
    /\ lastOp = Idle
    /\ \E u \in DOMAIN usersMap, body \in bodies :
        LET user     == usersMap[u]
            rideData == postRideData(body, user)
            err      == createRideError(ridesMap, rideData)
            id       == rideIdCounter
        IN  IF err # NoError
            THEN /\ lastOp' = [op |-> "postRide", id |-> NULL, user |-> user.id,
                               err |-> "Error creating ride", data |-> body]
                 /\ UNCHANGED <<ridesMap, ridesOrder, rideIdCounter, transitions>>
            ELSE /\ rideIdCounter <= MaxRides
                 /\ rideIdCounter' = rideIdCounter + 1
                 /\ ridesOrder' = MapSetOrder(ridesOrder, id)
                 /\ ridesMap' = MapSet(ridesMap, id,
                                       createRideRecord(rideData, id, now))
                 /\ transitions' = MapSet(transitions, id, {})
                 /\ lastOp' = [op |-> "postRide", id |-> id, user |-> user.id,
                               err |-> NoError, data |-> body]
    /\ RidesOnly

\* bodies that name no driver
DriverlessBodies == {body \in RideBodies : body.driverId = NULL}

postRideDriverless == postRideCall(DriverlessBodies)

\* a second account, of a driver, is registered
createUserDriver ==
    /\ lastOp = Idle
    /\ userIdCounter <= MaxUsers
    /\ LET id   == userIdCounter
           user == createUserRecord(
                     [username |-> "ana", email |-> "ana@example.com",
                      userType |-> "driver", isOnline |-> FALSE], id, now)
       IN  /\ userIdCounter' = userIdCounter + 1
           /\ usersMap' = MapSet(usersMap, id, user)
           /\ lastOp' = [op |-> "createUser", id |-> id, user |-> NULL,
                         err |-> NoError, data |-> user]
    /\ UNCHANGED <<vehiclesMap, ridesMap, ridesOrder, ratingsMap,
                   vehicleIdCounter, rideIdCounter, ratingIdCounter,
                   now, transitions, calls, driverView, placesInput>>

NextRoutes ==
    \/ createUserDriver
    \/ postRideDriverless
    \/ patchRideCancel
    \/ patchRideAccept
    \/ patchRideDecline
    \/ patchRideArrived
    \/ patchRideStart
    \/ patchRideComplete
    \/ Return

SpecRoutes == Init /\ [][NextRoutes]_vars


\* C36 as stated: through the handlers a ride becomes cancelled only on a
\* request of its passenger or its assigned driver, becomes in_progress or
\* completed only on a request of its assigned driver, and a user who is
\* neither changes its status only by accepting it, as a driver, while it
\* is requested.
C36_OnlyParticipantsMoveRide ==
    [][\A k \in DOMAIN ridesMap :
        ridesMap'[k].status # ridesMap[k].status
          => LET u       == lastOp'.user
                 related == u \in {ridesMap[k].passengerId, ridesMap[k].driverId}
             IN  /\ lastOp'.id = k
                 /\ ridesMap'[k].status = "cancelled" => related
                 /\ ridesMap'[k].status \in {"in_progress", "completed"}
                      => u = ridesMap[k].driverId
                 /\ ~related
                      => /\ lastOp'.op = "accept"
                         /\ ridesMap[k].status = "requested"
                         /\ usersMap[u].userType = "driver"]_vars


\* C37 as stated: every rating POST /api/ratings stores has as fromUserId a
\* participant of the rated ride and as toUserId the ride's other
\* participant, not null and not the rater, whatever the ride's status.
C37_StoredRatingNamesBothParticipants ==
    [][(Called("postRating") /\ lastOp'.err = NoError)
         => LET rating == ratingsMap'[lastOp'.id]
                ride   == ridesMap[rating.rideId]
            IN  /\ rating.fromUserId \in {ride.passengerId, ride.driverId}
                /\ rating.toUserId # NULL
                /\ rating.toUserId \in {ride.passengerId, ride.driverId}
                /\ rating.toUserId # rating.fromUserId]_vars


(***************************************************************************)
(* Requests whose body names a passenger, a status or a rater.             *)
(***************************************************************************)
postRide == postRideCall(RideBodies)

\* a client that sends a fromUserId of its own choice
postRatingForged == postRatingCall({NULL, 1, 2})

\* The two routes that store a record built from a request body; a body
\* may name a driver, so rides with and without a driver are rated.
NextForgery ==
    \/ createUserDriver
    \/ postRide
    \/ postRatingForged
    \/ Return

SpecForgery == Init /\ [][NextForgery]_vars

\* C38: the ride POST /api/rides stores has the authenticated user as
\* passenger and status requested, and the rating POST /api/ratings stores
\* has the authenticated user as fromUserId: the stored record is
\* determined by the user, the clock, the counter and the other body
\* fields, so the passengerId, status, fromUserId and toUserId of the body
\* have no effect on it.
C38_BodyCannotForge ==
    [][/\ (Called("postRide") /\ lastOp'.err = NoError)
            => ridesMap'[lastOp'.id] =
                 [id            |-> rideIdCounter,
                  passengerId   |-> lastOp'.user,
                  driverId      |-> lastOp'.data.driverId,
                  originAddress |-> lastOp'.data.originAddress,
                  status        |-> "requested",
                  requestedAt   |-> now,
                  acceptedAt    |-> NULL,
                  startedAt     |-> NULL,
                  completedAt   |-> NULL,
                  cancelledAt   |-> NULL]
       /\ (Called("postRating") /\ lastOp'.err = NoError)
            => LET ride == ridesMap[lastOp'.data.rideId] IN
               ratingsMap'[lastOp'.id] =
                 [id         |-> ratingIdCounter,
                  rideId     |-> lastOp'.data.rideId,
                  fromUserId |-> lastOp'.user,
                  toUserId   |-> IF lastOp'.user = ride.passengerId
                                 THEN ride.driverId ELSE ride.passengerId,
                  rating     |-> lastOp'.data.rating,
                  createdAt  |-> now]]_vars

\* C38 witness: a rating has just been stored from the user who posted it
\* although the body named another rater and another rated user, in a store
\* that holds a ride posted by the second user.
C38_Witness ==
    /\ lastOp.op = "postRating"
    /\ lastOp.err = NoError
    /\ lastOp.data.fromUserId \notin {NULL, lastOp.user}
    /\ lastOp.data.toUserId \notin {NULL, ratingsMap[lastOp.id].toUserId}
    /\ ratingsMap[lastOp.id].fromUserId = lastOp.user
    /\ \E k \in DOMAIN ridesMap : ridesMap[k].passengerId = 2


(***************************************************************************)
(* The address input (GooglePlacesInput).                                  *)
(***************************************************************************)
InputFrame ==
    UNCHANGED <<store, now, lastOp, transitions, calls, driverView>>

\* The parent passes a new value: the cleanup of the last effect run clears
\* its timer, and the effect runs again.  A text below three characters
\* clears the predictions and returns; a longer one sets the loading flag,
\* clears the error and arms the 300 ms timer.
valueChange ==
    /\ \E len \in 0..MaxValueLen :
        placesInput' =
          IF len < MinChars
          THEN [placesInput EXCEPT !.value = len,
                                   !.timer = FALSE,
                                   !.predictions = "none"]
          ELSE [placesInput EXCEPT !.value = len,
                                   !.isLoading = TRUE,
                                   !.error = NULL,
                                   !.timer = TRUE]
    /\ InputFrame

\* The timer fires: getPlacePredictions is called.
debounceTimer ==
    /\ placesInput.timer
    /\ placesInput.requests < MaxRequests
    /\ placesInput' = [placesInput EXCEPT !.timer = FALSE,
                                          !.requests = placesInput.requests + 1]
    /\ InputFrame

PlacesStatuses == {"OK", "ZERO_RESULTS", "UNKNOWN_ERROR"}

\* The callback of getPlacePredictions runs with the service's status.
predictionsCallback ==
    /\ placesInput.requests > 0
    /\ \E status \in PlacesStatuses :
        placesInput' =
          [placesInput EXCEPT
             !.requests = placesInput.requests - 1,
             !.isLoading = FALSE,
             !.predictions = IF status = "OK" THEN "some" ELSE "none",
             !.error = IF status \in {"OK", "ZERO_RESULTS"}
                       THEN placesInput.error
                       ELSE "Falha ao buscar enderecos. Tente novamente."]
    /\ InputFrame

NextPlacesInput ==
    \/ valueChange
    \/ debounceTimer
    \/ predictionsCallback

SpecPlacesInput == Init /\ [][NextPlacesInput]_vars

\* C39 as stated, for a run that refutes it in finitely many steps: when no
\* debounce timer is armed and no lookup is in flight, so that nothing is
\* left to happen until the input changes again, the loading flag is false.
C39_LoadingClearsWhenInputRests ==
    (~placesInput.timer /\ placesInput.requests = 0) => ~placesInput.isLoading

=============================================================================
